---- MODULE Spec2Model ----
(***************************************************************************)
(* neoads: abstract containers (doubly linked list, set, map) kept as      *)
(* subgraphs of a property-graph store.  The model has the store (nodes    *)
(* and typed edges), the client-side handles (each container object's      *)
(* in-memory `length` and `deleted` flag) and one action per container     *)
(* operation, written from the queries and the Python control flow of      *)
(* src/neoads/ads_*.py and memmanager.py.                                   *)
(*                                                                         *)
(* ads_abstractset.py uses the class SetItem and the SET_ELEMENT           *)
(* relationship manager `elements`; the model takes both from their only   *)
(* definition in the repository, core.py lines 389-428.                    *)
(***************************************************************************)
EXTENDS Integers, Sequences, FiniteSets, TLC

(* ------------------------------ bounds -------------------------------- *)
\* node ids the store can hand out to wrapper items
NumItemIds == 16
\* wrapper items the list specifications let the store hold
MaxListItems == 3
\* wrapper items the lifecycle specification lets the store hold
MaxItems == 3
\* wrapper items the set specifications let the store hold in the sets U and V
MaxSetItems == 3

(* ------------------------------ universe ------------------------------ *)
ItemIds == 1..NumItemIds

\* "u" is a list the user named, "anon_v" one whose name was generated
ListNames == {"u", "anon_v"}
SetNames == {"U", "V"}
MapNames == {"m"}
\* generated names (UniqueIdProperty: 32 hex digits), in the order they are drawn
AnonSeq == <<"anon_1", "anon_2", "anon_3", "anon_4", "anon_5", "anon_6">>
AnonPool == {AnonSeq[k] : k \in 1..Len(AnonSeq)}
Names == ListNames \cup SetNames \cup MapNames \cup AnonPool

\* the name matches the sweep's pattern ^[0-9a-f]{32}$
IsAnonymous(n) == n \in AnonPool \cup {"anon_v"}

\* payload elements; e2 and e3 are two nodes with the same value
Elements == {"e1", "e2", "e3", "e4"}
\* the elements the list specifications append
ListElements == {"e1", "e2", "e3"}
\* the elements the merge specification appends
MergeElements == {"e1", "e2"}
NoElem == "none"
ElemValue(e) == CASE e = "e1" -> 10 [] e = "e2" -> 27 [] e = "e3" -> 27 [] OTHER -> 300

\* _neoads_hash: a function of the element's value alone
NeoadsHash(e) == ElemValue(e)

RECURSIVE HexDigits(_)
\* f"{n:x}": the lower-case hexadecimal digits of n, most significant first
HexDigits(n) == IF n < 16 THEN <<n>> ELSE Append(HexDigits(n \div 16), n % 16)

NoHash == <<>>
Hashes == {NeoadsHash(e) : e \in Elements}

VARIABLES g, h, res, appended, assigned, obs

vars == <<g, h, res, appended, assigned, obs>>

(* ------------------------------ the store ----------------------------- *)
FreeItem == [label |-> "free", hash |-> NoHash]
NoCont == [kind |-> "none", length |-> 0]

\* temp holds the staging edges (a_list)-[:TEMP_LINK{item_id}]->(item) as
\* <<list name, item, item_id>>
EmptyStore ==
    [cont |-> [n \in Names |-> NoCont],
     item |-> [i \in ItemIds |-> FreeItem],
     val |-> [i \in ItemIds |-> NoElem],
     head |-> {}, nxt |-> {}, prv |-> {}, member |-> {},
     keys |-> {}, vals |-> {},
     temp |-> {},
     elem |-> Elements]

UsedItems(s) == {i \in ItemIds : s.item[i].label # "free"}

\* the id the store gives the next node it creates
FreshItem(s) ==
    CHOOSE i \in ItemIds \ UsedItems(s) : \A j \in ItemIds \ UsedItems(s) : i <= j

\* StructuredNode.save() of a new container: a node with length 0
SaveNew(s, n, kind) == [s EXCEPT !.cont[n] = [kind |-> kind, length |-> 0]]

\* save() of an existing handle: SET n += props on the node, if it is still there
SaveLength(s, n, len) ==
    IF s.cont[n].kind = "none" THEN s ELSE [s EXCEPT !.cont[n].length = len]

CreateItem(s, i, label, hash) ==
    [s EXCEPT !.item[i] = [label |-> label, hash |-> hash]]

ConnectValue(s, i, e) == [s EXCEPT !.val[i] = e]
ConnectHead(s, n, i) == [s EXCEPT !.head = @ \cup {<<n, i>>}]
ConnectNxt(s, i, j) == [s EXCEPT !.nxt = @ \cup {<<i, j>>}]
ConnectPrv(s, i, j) == [s EXCEPT !.prv = @ \cup {<<i, j>>}]
ConnectMember(s, n, i) == [s EXCEPT !.member = @ \cup {<<n, i>>}]

\* DETACH DELETE of the wrapper items D: the nodes and every edge at them
DetachDeleteItems(s, D) ==
    [s EXCEPT !.item = [i \in ItemIds |-> IF i \in D THEN FreeItem ELSE @[i]],
              !.val = [i \in ItemIds |-> IF i \in D THEN NoElem ELSE @[i]],
              !.head = {p \in @ : p[2] \notin D},
              !.member = {p \in @ : p[2] \notin D},
              !.temp = {p \in @ : p[2] \notin D},
              !.nxt = {p \in @ : p[1] \notin D /\ p[2] \notin D},
              !.prv = {p \in @ : p[1] \notin D /\ p[2] \notin D}]

\* DETACH DELETE of the container nodes C
DetachDeleteConts(s, C) ==
    [s EXCEPT !.cont = [n \in Names |-> IF n \in C THEN NoCont ELSE @[n]],
              !.head = {p \in @ : p[1] \notin C},
              !.member = {p \in @ : p[1] \notin C},
              !.temp = {p \in @ : p[1] \notin C},
              !.keys = {p \in @ : p[1] \notin C /\ p[2] \notin C},
              !.vals = {p \in @ : p[1] \notin C /\ p[2] \notin C}]

\* DETACH DELETE of a payload element: its node and the value edges to it
DetachDeleteElem(s, e) ==
    [s EXCEPT !.elem = @ \ {e},
              !.val = [i \in ItemIds |-> IF @[i] = e THEN NoElem ELSE @[i]]]

(* ------------------------------ list queries -------------------------- *)
HeadsOf(s, l) == {i \in ItemIds : <<l, i>> \in s.head}
\* item.nxt / item.prv: RelationshipTo("DLListItem", ...)
NxtOf(s, i) == {j \in ItemIds : <<i, j>> \in s.nxt /\ s.item[j].label = "DLListItem"}
PrvOf(s, i) == {j \in ItemIds : <<i, j>> \in s.prv /\ s.item[j].label = "DLListItem"}

RECURSIVE HopsFrom(_, _, _)
HopsFrom(s, S, k) ==
    IF k = 0 THEN S
    ELSE HopsFrom(s, {j \in ItemIds : \E i \in S : <<i, j>> \in s.nxt}, k - 1)

\* a walk that accepts every item within k hops
HopsUpTo(s, l, k) ==
    {b \in UNION {HopsFrom(s, HeadsOf(s, l), j - 1) : j \in 1..k} :
        s.item[b].label = "DLListItem"}

\* MATCH (a)-[:DLL_NXT*k]->(b:DLListItem) WHERE ID(a)=$self RETURN b
Hops(s, l, k) ==
    IF k <= 0 THEN {}
    ELSE {b \in HopsFrom(s, HeadsOf(s, l), k - 1) : s.item[b].label = "DLListItem"}

\* two items one undirected DLL_NXT hop apart, or two heads of one container
Adjacent(s, i, j) ==
    \/ <<i, j>> \in s.nxt
    \/ <<j, i>> \in s.nxt
    \/ i # j /\ \E c \in Names : <<c, i>> \in s.head /\ <<c, j>> \in s.head

RECURSIVE Closure(_, _)
Closure(s, S) ==
    LET T == S \cup {j \in ItemIds : \E i \in S : Adjacent(s, i, j)}
    IN IF T = S THEN S ELSE Closure(s, T)

\* MATCH (a_list{name})-[:DLL_NXT*]-(data_item:DLListItem): the undirected walk
ListReach(s, l) ==
    {i \in Closure(s, HeadsOf(s, l)) : s.item[i].label = "DLListItem"}

\* ... WHERE NOT (data_item)-[:DLL_NXT]->() RETURN data_item
TailRows(s, l) == {i \in ListReach(s, l) : ~ \E j \in ItemIds : <<i, j>> \in s.nxt}

(* ------------------------------ handles ------------------------------- *)
\* _pre_action_check: the handle's node was deleted through this handle
PreCheckFails(n) == h[n].deleted

Result(op, c, o, arg, exc) == [op |-> op, c |-> c, o |-> o, arg |-> arg, exc |-> exc]

RemoveAt(q, k) == SubSeq(q, 1, k - 1) \o SubSeq(q, k + 1, Len(q))

(* ------------------------------ list: append -------------------------- *)
\* new_list_item = DLListItem().save(); new_list_item.value.connect(an_element)
NewListItem(s, e) ==
    ConnectValue(CreateItem(s, FreshItem(s), "DLListItem", NoHash), FreshItem(s), e)

\* the list was empty: the new item becomes the head
AppendAsHead(s, l, i) == ConnectHead(s, l, i)

\* the list was not empty: the new item goes after the tail t
AppendAfterTail(s, t, i) == ConnectPrv(ConnectNxt(s, t, i), i, t)

\* list.append(an_element) through the client handle k of the list l: the
\* branch is chosen by the handle's copy of length, and save() writes that copy
ListAppendBy(k, l, e) ==
    /\ e \in g.elem
    /\ UNCHANGED <<assigned, obs>>
    /\ IF PreCheckFails(k)
       THEN /\ res' = Result("append", l, "", 0, "ObjectDeletedError")
            /\ UNCHANGED <<g, h, appended>>
       ELSE LET i == FreshItem(g)
                s1 == NewListItem(g, e)
            IN IF h[k].length < 0
               THEN \* len() refuses a negative __len__; the item is saved already
                    /\ g' = s1
                    /\ res' = Result("append", l, "", 0, "ValueError")
                    /\ UNCHANGED <<h, appended>>
               ELSE IF h[k].length = 0
               THEN /\ g' = SaveLength(AppendAsHead(s1, l, i), l, h[k].length + 1)
                    /\ h' = [h EXCEPT ![k].length = @ + 1]
                    /\ appended' = [appended EXCEPT ![l] = Append(@, e)]
                    /\ res' = Result("append", l, "", 0, "")
               ELSE IF TailRows(s1, l) = {}
               THEN \* [0][0][0] of an empty result
                    /\ g' = s1
                    /\ res' = Result("append", l, "", 0, "IndexError")
                    /\ UNCHANGED <<h, appended>>
               ELSE \E t \in TailRows(s1, l) :
                    /\ g' = SaveLength(AppendAfterTail(s1, t, i), l, h[k].length + 1)
                    /\ h' = [h EXCEPT ![k].length = @ + 1]
                    /\ appended' = [appended EXCEPT ![l] = Append(@, e)]
                    /\ res' = Result("append", l, "", 0, "")

\* list.append(an_element) through the handle the model keeps under the list's name
ListAppend(l, e) == ListAppendBy(l, l, e)

(* ------------------------------ list: del list[i] --------------------- *)
\* RelationshipManager.reconnect(old, new) on us.nxt: us-[DLL_NXT]->old becomes
\* us-[DLL_NXT]->new
ReconnectNxt(s, us, old, new) ==
    [s EXCEPT !.nxt = (@ \ {<<us, old>>}) \cup {<<us, new>>}]
ReconnectPrv(s, us, old, new) ==
    [s EXCEPT !.prv = (@ \ {<<us, old>>}) \cup {<<us, new>>}]
ReconnectHead(s, l, old, new) ==
    [s EXCEPT !.head = (@ \ {<<l, old>>}) \cup {<<l, new>>}]

\* a bypass that reconnects the forward edge only
BypassMiddleOneWay(s, it, p, n) == ReconnectNxt(s, p, it, n)

\* a middle item: bypass it
BypassMiddle(s, it, p, n) == ReconnectPrv(ReconnectNxt(s, p, it, n), n, it, p)

\* a head deletion that leaves the list's head edge on the deleted item
AdvanceHeadNot(s, l, it, n) == s

\* a head item: the list's head points to the next item
AdvanceHead(s, l, it, n) == ReconnectHead(s, l, it, n)

\* the bounds test of __getitem__ and __delitem__
IndexOutOfBounds(idx, len) == idx < 0 \/ idx > len

\* a deletion that removes the item without re-linking its neighbours
UnlinkNoRelink(s, l, it, p, n) == DetachDeleteItems(s, {it})

\* the structural part of __delitem__ for the located item `it`
Unlink(s, l, it, p, n) ==
    LET s1 == IF Cardinality(NxtOf(s, it)) = 1 /\ Cardinality(PrvOf(s, it)) = 1
              THEN BypassMiddle(s, it, p, n) ELSE s
        s2 == IF Cardinality(NxtOf(s1, it)) = 1 /\ Cardinality(PrvOf(s1, it)) = 0
              THEN AdvanceHead(s1, l, it, n) ELSE s1
    IN DetachDeleteItems(s2, {it})

\* reconnect raises NotConnected when us-[r]->old does not exist
HeadCaseNotConnected(s, l, it) ==
    /\ Cardinality(NxtOf(s, it)) = 1
    /\ Cardinality(PrvOf(s, it)) = 0
    /\ <<l, it>> \notin s.head

PickOr(S, d) == IF S = {} THEN {d} ELSE S

\* del list[item_index] through the client handle k of the list l
ListDelItemBy(k, l, idx) ==
    /\ UNCHANGED <<assigned, obs>>
    /\ IF IndexOutOfBounds(idx, h[k].length) \/ Hops(g, l, idx + 1) = {}
       THEN /\ res' = Result("delitem", l, "", idx, "IndexError")
            /\ UNCHANGED <<g, h, appended>>
       ELSE \E it \in Hops(g, l, idx + 1) :
            IF HeadCaseNotConnected(g, l, it)
            THEN /\ res' = Result("delitem", l, "", idx, "NotConnected")
                 /\ UNCHANGED <<g, h, appended>>
            ELSE \E p \in PickOr(PrvOf(g, it), it), n \in PickOr(NxtOf(g, it), it) :
                 /\ g' = SaveLength(Unlink(g, l, it, p, n), l, h[k].length - 1)
                 /\ h' = [h EXCEPT ![k].length = @ - 1]
                 /\ appended' = [appended EXCEPT ![l] = RemoveAt(@, idx + 1)]
                 /\ res' = Result("delitem", l, "", idx, "")

\* del list[item_index] through the handle kept under the list's name
ListDelItem(l, idx) == ListDelItemBy(l, l, idx)

(* ------------------------------ list: list[i] ------------------------- *)
\* what list[idx] can return: the elements held by the located item, or the fault
ListGetItem(s, len, l, idx) ==
    IF IndexOutOfBounds(idx, len) \/ Hops(s, l, idx + 1) = {}
    THEN {"IndexError"}
    ELSE {IF s.val[it] = NoElem THEN "IndexError" ELSE s.val[it] :
             it \in Hops(s, l, idx + 1)}

\* what the last evaluation of the set operators returned
NoObs == [ran |-> FALSE, diffs |-> {}, xor |-> {}, eq |-> "", both |-> {},
          either |-> {}, lens |-> <<0, 0, 0>>]

(* ------------------------------ initial state ------------------------- *)
\* every named container of the model has been created and saved, empty
InitStore ==
    [EmptyStore EXCEPT
        !.cont = [n \in Names |->
                    IF n \in ListNames THEN [kind |-> "list", length |-> 0]
                    ELSE IF n \in SetNames THEN [kind |-> "set", length |-> 0]
                    ELSE IF n \in MapNames THEN [kind |-> "map", length |-> 0]
                    ELSE NoCont]]

Init ==
    /\ g = InitStore
    /\ h = [n \in Names |-> [length |-> 0, deleted |-> FALSE]]
    /\ res = Result("init", "", "", 0, "")
    /\ appended = [l \in ListNames |-> <<>>]
    /\ assigned = [k \in Hashes |-> NoElem]
    /\ obs = NoObs

ListRoom == Cardinality(UsedItems(g)) < MaxListItems

NextAppendDelete ==
    \/ \E l \in ListNames, e \in ListElements : ListRoom /\ ListAppend(l, e)
    \/ \E l \in ListNames, idx \in -1..MaxListItems : ListDelItem(l, idx)

SpecAppendDelete == Init /\ [][NextAppendDelete]_vars

(* ------------------------------ list claims --------------------------- *)
RECURSIVE ForwardFrom(_, _)
\* the items a walk along DLL_NXT edges from the set S arrives at
ForwardFrom(s, S) ==
    LET T == S \cup {j \in ItemIds : \E i \in S : <<i, j>> \in s.nxt}
    IN IF T = S THEN S ELSE ForwardFrom(s, T)

\* the wrapper items reachable from the head anchor of l by next edges
ChainItems(s, l) == ForwardFrom(s, HeadsOf(s, l))

\* C1: under any sequence of append and del list[i] on lists that start empty,
\* len(list) equals the number of wrapper items reachable from the list's head
\* anchor through next edges.
C1_LengthIsChainCount ==
    \A l \in ListNames : h[l].length = Cardinality(ChainItems(g, l))

C1_Witness ==
    /\ res.op = "delitem" /\ res.exc = "" /\ res.arg = 1
    /\ h[res.c].length = 2

\* C3: list[i] returns the i-th element of the sequence obtained from the
\* appended elements by removing, for each del list[k], the element at index k:
\* after n appends list[i] = e_i, and after del list[k] the length is n-1 with
\* list[i] = e_i below k and e_(i+1) from k on.
C3_IndexedAccess ==
    \A l \in ListNames :
        /\ h[l].length = Len(appended[l])
        /\ \A i \in 0..Len(appended[l]) - 1 :
              ListGetItem(g, h[l].length, l, i) = {appended[l][i + 1]}

C3_Witness ==
    /\ res.op = "delitem" /\ res.exc = "" /\ res.arg = 0
    /\ Len(appended[res.c]) = 2
    /\ appended[res.c][1] # appended[res.c][2]

\* the indices the bounds fault is claimed for
OutsideList(idx, len) == idx < 0 \/ idx >= len

\* C15: list[i] and del list[i] raise IndexError for every i < 0 and every
\* i >= len(list), i = len(list) and any index on an empty list included, and
\* a rejected del list[i] leaves the wrapper items, the links and the length
\* as they were.
C15_BoundsFault ==
    [][\A l \in ListNames :
          /\ \A idx \in -1..MaxListItems + 1 :
                OutsideList(idx, h[l].length) =>
                   ListGetItem(g, h[l].length, l, idx) = {"IndexError"}
          /\ (res'.op = "delitem" /\ res'.c = l
                 /\ OutsideList(res'.arg, h[l].length)) =>
                /\ res'.exc = "IndexError"
                /\ g' = g
                /\ h' = h]_vars

C15_Witness ==
    /\ res.op = "delitem" /\ res.exc = "IndexError"
    /\ res.arg = h[res.c].length
    /\ h[res.c].length = 2
    /\ Cardinality(ChainItems(g, res.c)) = 2

(* ------------------------------ clear / delete / destroy -------------- *)
\* AbstractDLList.clear: DETACH DELETE every DLListItem on an undirected
\* DLL_NXT walk from the node of this name, then length = 0 and save()
ListClearStore(s, l) == SaveLength(DetachDeleteItems(s, ListReach(s, l)), l, 0)

\* StructuredNode.delete(): DETACH DELETE of the handle's node
DeleteNode(s, n) == DetachDeleteConts(s, {n})

(* ------------------------------ list: extend_by_merging --------------- *)
\* a merge that links the tail to the other head in one direction only
MergeAttachOneWay(s, t, oh) == ConnectNxt(s, t, oh)

\* both non-empty: other's head is attached after this list's tail t
MergeAttach(s, t, oh) == ConnectPrv(ConnectNxt(s, t, oh), oh, t)

\* a merge that forgets to remove the other list's node
MergeFinishKeepOther(s, l, o, len) == SaveLength(s, l, len)

\* MATCH (a:AbstractDLList{name:other.name}) DETACH DELETE a, then self.save()
MergeFinish(s, l, o, len) == SaveLength(DetachDeleteConts(s, {o}), l, len)

\* other_list.head[0]
HeadRows(s, o) == {i \in HeadsOf(s, o) : s.item[i].label = "DLListItem"}

ListExtendByMerging(l, o) ==
    /\ l # o
    /\ UNCHANGED <<assigned, obs>>
    /\ IF PreCheckFails(l) \/ (h[l].length > 0 /\ PreCheckFails(o))
       THEN /\ res' = Result("extend", l, o, 0, "ObjectDeletedError")
            /\ UNCHANGED <<g, h, appended>>
       ELSE IF h[l].length > 0 /\ h[o].length > 0
       THEN IF TailRows(g, l) = {} \/ HeadRows(g, o) = {}
            THEN /\ res' = Result("extend", l, o, 0, "IndexError")
                 /\ UNCHANGED <<g, h, appended>>
            ELSE \E t \in TailRows(g, l), oh \in HeadRows(g, o) :
                 /\ g' = MergeFinish(MergeAttach(g, t, oh), l, o,
                                     h[l].length + h[o].length)
                 /\ h' = [h EXCEPT ![l].length = @ + h[o].length]
                 /\ appended' = [appended EXCEPT ![l] = @ \o appended[o],
                                                 ![o] = <<>>]
                 /\ res' = Result("extend", l, o, 0, "")
       ELSE IF h[l].length > 0
       THEN \* this list is not empty, the other one is
            IF HeadRows(g, o) = {}
            THEN /\ res' = Result("extend", l, o, 0, "IndexError")
                 /\ UNCHANGED <<g, h, appended>>
            ELSE \E oh \in HeadRows(g, o) :
                 /\ g' = MergeFinish(ConnectHead(g, l, oh), l, o, h[o].length)
                 /\ h' = [h EXCEPT ![l].length = h[o].length]
                 /\ appended' = [appended EXCEPT ![l] = @ \o appended[o],
                                                 ![o] = <<>>]
                 /\ res' = Result("extend", l, o, 0, "")
       ELSE \* this list is empty: other_list.destroy()
            IF PreCheckFails(o)
            THEN /\ res' = Result("extend", l, o, 0, "ObjectDeletedError")
                 /\ UNCHANGED <<g, h, appended>>
            ELSE /\ g' = DeleteNode(ListClearStore(g, o), o)
                 /\ h' = [h EXCEPT ![o] = [length |-> 0, deleted |-> TRUE]]
                 /\ appended' = [appended EXCEPT ![o] = <<>>]
                 /\ res' = Result("extend", l, o, 0, "")

\* the class of the container a name of the model stands for
KindOf(n) ==
    IF n \in ListNames THEN "list" ELSE IF n \in MapNames THEN "map" ELSE "set"

\* AbstractDLList(name=n).save() and its like: a new node, a new handle for it
Create(n) ==
    /\ g.cont[n].kind = "none"
    /\ g' = SaveNew(g, n, KindOf(n))
    /\ h' = [h EXCEPT ![n] = [length |-> 0, deleted |-> FALSE]]
    /\ appended' = IF n \in ListNames THEN [appended EXCEPT ![n] = <<>>] ELSE appended
    /\ res' = Result("new", n, "", 0, "")
    /\ UNCHANGED <<assigned, obs>>

\* the handle's node is in the store
Live(n) == g.cont[n].kind # "none"

\* the list specification calls the operations through handles of live lists
NextList ==
    \/ \E l \in ListNames, e \in MergeElements :
          ListRoom /\ Live(l) /\ ListAppend(l, e)
    \/ \E l \in ListNames, idx \in -1..MaxListItems :
          Live(l) /\ ListDelItem(l, idx)
    \/ \E l \in ListNames, o \in ListNames :
          Live(l) /\ Live(o) /\ ListExtendByMerging(l, o)
    \/ \E l \in ListNames : Create(l)

SpecList == Init /\ [][NextList]_vars

\* every DLListItem of the store
ListItems(s) == {i \in ItemIds : s.item[i].label = "DLListItem"}

\* C2: after any sequence of append, del list[i] and extend_by_merging the
\* chain is a well-formed doubly linked list: next and previous are mutual
\* inverses, an item has at most one next and one previous, a list has at most
\* one head edge, a head has no previous and the item at the last position has
\* no next.
C2_WellFormedChain ==
    /\ \A i, j \in ItemIds : <<i, j>> \in g.nxt <=> <<j, i>> \in g.prv
    /\ \A i \in ListItems(g) :
          Cardinality(NxtOf(g, i)) <= 1 /\ Cardinality(PrvOf(g, i)) <= 1
    /\ \A l \in ListNames :
          /\ Cardinality(HeadsOf(g, l)) <= 1
          /\ \A i \in HeadsOf(g, l) : PrvOf(g, i) = {}
          /\ g.cont[l].kind = "list" =>
                /\ Cardinality(ChainItems(g, l)) = g.cont[l].length
                /\ \A i \in Hops(g, l, g.cont[l].length) : NxtOf(g, i) = {}

C2_Witness ==
    /\ res.op = "extend" /\ res.exc = ""
    /\ g.cont[res.c].length = 3
    /\ Cardinality(g.prv) = 2

\* the values along the chain of l, position by position
ChainValues(s, l, n) == [k \in 1..n |-> {s.val[i] : i \in Hops(s, l, k)}]

\* the step is u.extend_by_merging(v) returning normally with both lists
\* present in the store and non-empty
MergeStepBothNonEmpty(l, o) ==
    /\ res' = Result("extend", l, o, 0, "")
    /\ g.cont[l].kind = "list" /\ g.cont[o].kind = "list"
    /\ h[l].length > 0 /\ h[o].length > 0

\* C10: when u and v are both non-empty, u.extend_by_merging(v) leaves u with
\* length len(u)+len(v), holding u's elements then v's in order, v's former
\* head being the next of u's former tail and pointing back to it; v's wrapper
\* items are retained and v itself no longer exists.
C10_MergeBothNonEmpty ==
    [][\A l, o \in ListNames :
          MergeStepBothNonEmpty(l, o) =>
            /\ h'[l].length = h[l].length + h[o].length
            /\ g'.cont[l].length = h[l].length + h[o].length
            /\ ChainValues(g', l, h'[l].length)
                 = ChainValues(g, l, h[l].length) \o ChainValues(g, o, h[o].length)
            /\ \A t \in Hops(g, l, h[l].length), oh \in HeadsOf(g, o) :
                  <<t, oh>> \in g'.nxt /\ <<oh, t>> \in g'.prv
            /\ ListItems(g') = ListItems(g)
            /\ g'.val = g.val
            /\ g'.cont[o].kind = "none"]_vars

C10_Witness ==
    /\ res.op = "extend" /\ res.exc = ""
    /\ g.cont[res.c].length = 3
    /\ Cardinality(ChainItems(g, res.c)) = 3
    /\ g.cont[res.o].kind = "none"
    /\ ~ h[res.o].deleted

\* the step is l.extend_by_merging(o) through current handles of two lists
\* present in the store
MergeStep(l, o) ==
    /\ res'.op = "extend" /\ res'.c = l /\ res'.o = o
    /\ g.cont[l].kind = "list" /\ g.cont[o].kind = "list"
    /\ ~ PreCheckFails(l) /\ ~ PreCheckFails(o)

\* C11: when u is empty and v is not, u.extend_by_merging(v) makes u adopt v's
\* head: len(u) becomes v's former length, u[i] is v's former i-th element,
\* none of v's wrapper items is deleted and only v's node is removed.
C11_MergeIntoEmpty ==
    [][\A l, o \in ListNames :
          (MergeStep(l, o) /\ h[l].length = 0 /\ h[o].length > 0) =>
            /\ res'.exc = ""
            /\ h'[l].length = h[o].length
            /\ g'.cont[l].kind = "list"
            /\ g'.cont[l].length = h[o].length
            /\ ChainValues(g', l, h[o].length) = ChainValues(g, o, h[o].length)
            /\ ListItems(g') = ListItems(g)
            /\ g'.cont[o].kind = "none"]_vars

\* C12: when v is empty and u is not, u.extend_by_merging(v) returns without
\* raising, leaves u's chain, element order and length as they were and
\* removes v's node.
C12_MergeEmptyOther ==
    [][\A l, o \in ListNames :
          (MergeStep(l, o) /\ h[l].length > 0 /\ h[o].length = 0) =>
            /\ res'.exc = ""
            /\ h'[l].length = h[l].length
            /\ g'.cont[l].kind = "list"
            /\ g'.cont[l].length = h[l].length
            /\ ChainValues(g', l, h[l].length) = ChainValues(g, l, h[l].length)
            /\ ListItems(g') = ListItems(g)
            /\ g'.nxt = g.nxt /\ g'.prv = g.prv
            /\ g'.cont[o].kind = "none"]_vars

(* ------------------------------ set: queries -------------------------- *)
\* MATCH (a_set{name})-[:SET_ELEMENT]->(an_element:SetItem)
SetMembers(s, S) ==
    {i \in ItemIds : <<S, i>> \in s.member /\ s.item[i].label = "SetItem"}

\* the hash_value properties of the set's wrapper items
HashTags(s, S) == {s.item[i].hash : i \in SetMembers(s, S)}

\* ... WHERE an_element.hash_value='{a_hash:x}'
HashRows(s, S, hv) == {i \in SetMembers(s, S) : s.item[i].hash = HexDigits(hv)}

\* a lookup that compares the stored tag with the unformatted number
ContainsHashRaw(s, S, hv) == \E i \in SetMembers(s, S) : s.item[i].hash = <<hv>>

\* contains_hash: len(rows) > 0
ContainsHash(s, S, hv) == HashRows(s, S, hv) # {}

\* an item whose tag is the unformatted number
AddElementRawTag(s, S, e, hv) ==
    LET i == FreshItem(s)
    IN ConnectMember(ConnectValue(CreateItem(s, i, "SetItem", <<hv>>), i, e), S, i)

\* SetItem(hash_value=a_hash).save(): the tag is stored as f"{a_hash:x}";
\* value.connect(an_item); elements.connect(new_set_item)
AddElement(s, S, e, hv) ==
    LET i == FreshItem(s)
    IN ConnectMember(ConnectValue(CreateItem(s, i, "SetItem", HexDigits(hv)), i, e), S, i)

\* remove_by_hash that leaves the store as it is
RemoveByHashNot(s, S, hv) == s

\* remove_by_hash: DETACH DELETE every wrapper item of the set with this tag
RemoveByHashStore(s, S, hv) == DetachDeleteItems(s, HashRows(s, S, hv))

\* add_with_hash on the store
AddWithHashStore(s, S, e, hv) ==
    IF ContainsHash(s, S, hv) THEN s ELSE AddElement(s, S, e, hv)

(* ------------------------------ set: add / remove --------------------- *)
SetAdd(S, e) ==
    /\ e \in g.elem
    /\ g' = AddWithHashStore(g, S, e, NeoadsHash(e))
    /\ res' = Result("add", S, e,
                     IF ContainsHash(g, S, NeoadsHash(e)) THEN 0 ELSE 1, "")
    /\ UNCHANGED <<h, appended, assigned, obs>>

SetAddWithHash(S, e, hv) ==
    /\ e \in g.elem
    /\ g' = AddWithHashStore(g, S, e, hv)
    /\ res' = Result("add_with_hash", S, e,
                     IF ContainsHash(g, S, hv) THEN 0 ELSE 1, "")
    /\ UNCHANGED <<h, appended, assigned, obs>>

SetRemoveByHash(S, hv) ==
    /\ UNCHANGED <<h, appended, assigned, obs>>
    /\ IF ContainsHash(g, S, hv)
       THEN /\ g' = RemoveByHashStore(g, S, hv)
            /\ res' = Result("remove_by_hash", S, "", hv, "")
       ELSE /\ res' = Result("remove_by_hash", S, "", hv, "KeyError")
            /\ UNCHANGED g

\* the wrapper items held by the sets U and V
SetRoom == Cardinality(UNION {SetMembers(g, S) : S \in SetNames}) < MaxSetItems

NextSet ==
    \/ \E S \in SetNames, e \in ListElements : SetRoom /\ SetAdd(S, e)
    \/ \E S \in SetNames, hv \in {NeoadsHash(e) : e \in ListElements} :
          SetRoom /\ SetAddWithHash(S, "e4", hv)
    \/ \E S \in SetNames, hv \in Hashes : SetRemoveByHash(S, hv)

SpecSet == Init /\ [][NextSet]_vars

\* no two wrapper items of one set carry the same hash tag
UniqueHashTags(s) ==
    \A S \in SetNames : \A i, j \in SetMembers(s, S) :
        s.item[i].hash = s.item[j].hash => i = j

\* the step is S.add(e) while a wrapper item of S already carries hash(e)
AddOfPresentHash(S, e) ==
    /\ res' = Result("add", S, e, 0, "")
    /\ ContainsHash(g, S, NeoadsHash(e))

SetContains(S, e) ==
    /\ e \in g.elem
    /\ res' = Result("contains", S, e,
                     IF ContainsHash(g, S, NeoadsHash(e)) THEN 1 ELSE 0, "")
    /\ UNCHANGED <<g, h, appended, assigned, obs>>

NextMember ==
    \/ \E S \in SetNames, e \in ListElements : SetRoom /\ SetAdd(S, e)
    \/ \E S \in SetNames, hv \in Hashes : SetRemoveByHash(S, hv)
    \/ \E S \in SetNames, e \in Elements : SetContains(S, e)

SpecMember == Init /\ [][NextMember]_vars

\* a wrapper item tagged with the hash hv is attached to the set
TagAttached(s, S, hv) ==
    \E i \in ItemIds :
        /\ <<S, i>> \in s.member
        /\ s.item[i].label = "SetItem"
        /\ s.item[i].hash = HexDigits(hv)

SetLen(S) == h[S].length

KeysSetOf(s, m) == {n \in Names : <<m, n>> \in s.keys}
ValuesSetOf(s, m) == {n \in Names : <<m, n>> \in s.vals}

\* the name a container saved without a name gets
FreshName(s) ==
    AnonSeq[CHOOSE k \in 1..Len(AnonSeq) :
               /\ s.cont[AnonSeq[k]].kind = "none"
               /\ \A j \in 1..(k - 1) : s.cont[AnonSeq[j]].kind # "none"]

NamesLeft(s, n) ==
    Cardinality({k \in 1..Len(AnonSeq) : s.cont[AnonSeq[k]].kind = "none"}) >= n

\* _init_map: two new anonymous sets, connected as key set and value set
InitMap(s, m) ==
    LET k == FreshName(s)
        s1 == SaveNew(s, k, "set")
        v == FreshName(s1)
        s2 == SaveNew(s1, v, "set")
    IN [s2 EXCEPT !.keys = @ \cup {<<m, k>>}, !.vals = @ \cup {<<m, v>>}]

\* the handles of the sets a store step created
NewHandles(hh, s, t) ==
    [n \in Names |-> IF s.cont[n].kind = "none" /\ t.cont[n].kind # "none"
                     THEN [length |-> 0, deleted |-> FALSE] ELSE hh[n]]

\* a new key: keys_set[0].add(key); values_set[0].add_with_hash(value, hash(key))
MapInsert(s, K, V, key, value) ==
    AddWithHashStore(AddWithHashStore(s, K, key, NeoadsHash(key)),
                     V, value, NeoadsHash(key))

\* an existing key: values_set[0].remove_by_hash(h); add_with_hash(value, h)
MapUpdate(s, V, key, value) ==
    AddWithHashStore(RemoveByHashStore(s, V, NeoadsHash(key)),
                     V, value, NeoadsHash(key))

MapSetItem(m, key, value) ==
    /\ key \in g.elem /\ value \in g.elem
    /\ UNCHANGED <<appended, obs>>
    /\ IF PreCheckFails(m)
       THEN /\ res' = Result("setitem", m, key, 0, "ObjectDeletedError")
            /\ UNCHANGED <<g, h, assigned>>
       ELSE IF KeysSetOf(g, m) = {} \/ ValuesSetOf(g, m) = {}
       THEN \* IndexError: the map has not been initialised yet
            /\ NamesLeft(g, 2)
            /\ LET s1 == InitMap(g, m)
               IN \E K \in KeysSetOf(s1, m), V \in ValuesSetOf(s1, m) :
                    /\ g' = MapInsert(s1, K, V, key, value)
                    /\ h' = NewHandles(h, g, s1)
            /\ assigned' = [assigned EXCEPT ![NeoadsHash(key)] = value]
            /\ res' = Result("setitem", m, key, 0, "")
       ELSE \E K \in KeysSetOf(g, m), V \in ValuesSetOf(g, m) :
            IF ~ ContainsHash(g, K, NeoadsHash(key))
            THEN /\ g' = MapInsert(g, K, V, key, value)
                 /\ assigned' = [assigned EXCEPT ![NeoadsHash(key)] = value]
                 /\ res' = Result("setitem", m, key, 0, "")
                 /\ UNCHANGED h
            ELSE IF ~ ContainsHash(g, V, NeoadsHash(key))
            THEN /\ res' = Result("setitem", m, key, 1, "KeyError")
                 /\ UNCHANGED <<g, h, assigned>>
            ELSE /\ g' = MapUpdate(g, V, key, value)
                 /\ assigned' = [assigned EXCEPT ![NeoadsHash(key)] = value]
                 /\ res' = Result("setitem", m, key, 1, "")
                 /\ UNCHANGED h

MapDelItem(m, key) ==
    /\ key \in g.elem
    /\ UNCHANGED <<h, appended, obs>>
    /\ IF PreCheckFails(m)
       THEN /\ res' = Result("delkey", m, key, 0, "ObjectDeletedError")
            /\ UNCHANGED <<g, assigned>>
       ELSE IF KeysSetOf(g, m) = {} \/ ValuesSetOf(g, m) = {}
       THEN /\ res' = Result("delkey", m, key, 0, "IndexError")
            /\ UNCHANGED <<g, assigned>>
       ELSE \E K \in KeysSetOf(g, m), V \in ValuesSetOf(g, m) :
            IF HashRows(g, K, NeoadsHash(key)) = {}
               \/ HashRows(g, V, NeoadsHash(key)) = {}
            THEN /\ res' = Result("delkey", m, key, 0, "KeyError")
                 /\ UNCHANGED <<g, assigned>>
            ELSE \E ik \in HashRows(g, K, NeoadsHash(key)),
                    iv \in HashRows(g, V, NeoadsHash(key)) :
                 /\ g' = DetachDeleteItems(g, {ik, iv})
                 /\ assigned' = [assigned EXCEPT ![NeoadsHash(key)] = NoElem]
                 /\ res' = Result("delkey", m, key, 0, "")

\* what map[key] can return: the value found through the value set, or the fault
MapGetItem(s, m, key) ==
    IF KeysSetOf(s, m) = {} \/ ValuesSetOf(s, m) = {} THEN {"KeyError"}
    ELSE UNION {IF ~ ContainsHash(s, K, NeoadsHash(key)) THEN {"KeyError"}
                ELSE IF ~ ContainsHash(s, V, NeoadsHash(key)) THEN {"KeyError"}
                ELSE {IF s.val[i] = NoElem THEN "IndexError" ELSE s.val[i] :
                         i \in HashRows(s, V, NeoadsHash(key))} :
                K \in KeysSetOf(s, m), V \in ValuesSetOf(s, m)}

\* map[key] as a step: an IndexError inside the try block (no key set yet, or
\* a value item that lost its value) is answered with _init_map() before the
\* KeyError is raised
MapLookup(m, key) ==
    /\ key \in g.elem
    /\ UNCHANGED <<appended, assigned, obs>>
    /\ IF PreCheckFails(m)
       THEN /\ res' = Result("getkey", m, key, 0, "ObjectDeletedError")
            /\ UNCHANGED <<g, h>>
       ELSE IF KeysSetOf(g, m) = {} \/ ValuesSetOf(g, m) = {}
       THEN /\ NamesLeft(g, 2)
            /\ g' = InitMap(g, m)
            /\ h' = NewHandles(h, g, InitMap(g, m))
            /\ res' = Result("getkey", m, key, 0, "KeyError")
       ELSE \E K \in KeysSetOf(g, m), V \in ValuesSetOf(g, m) :
            IF ~ ContainsHash(g, K, NeoadsHash(key))
               \/ ~ ContainsHash(g, V, NeoadsHash(key))
            THEN /\ res' = Result("getkey", m, key, 0, "KeyError")
                 /\ UNCHANGED <<g, h>>
            ELSE \E i \in HashRows(g, V, NeoadsHash(key)) :
                 IF g.val[i] = NoElem
                 THEN /\ NamesLeft(g, 2)
                      /\ g' = InitMap(g, m)
                      /\ h' = NewHandles(h, g, InitMap(g, m))
                      /\ res' = Result("getkey", m, key, 0, "KeyError")
                 ELSE /\ res' = Result("getkey", m, key, 1, "")
                      /\ UNCHANGED <<g, h>>

\* `key in map`: contains_hash on the key set; an IndexError (no key set yet)
\* is answered with _init_map() and False
MapContains(m, key) ==
    /\ key \in g.elem
    /\ UNCHANGED <<appended, assigned, obs>>
    /\ IF PreCheckFails(m)
       THEN /\ res' = Result("haskey", m, key, 0, "ObjectDeletedError")
            /\ UNCHANGED <<g, h>>
       ELSE IF KeysSetOf(g, m) = {}
       THEN /\ NamesLeft(g, 2)
            /\ g' = InitMap(g, m)
            /\ h' = NewHandles(h, g, InitMap(g, m))
            /\ res' = Result("haskey", m, key, 0, "")
       ELSE \E K \in KeysSetOf(g, m) :
            /\ res' = Result("haskey", m, key,
                             IF ContainsHash(g, K, NeoadsHash(key)) THEN 1 ELSE 0, "")
            /\ UNCHANGED <<g, h>>

\* len(self.keys_set[0]), the length stored on the key set, or 0 when there
\* is no key set
MapLenOf(s, m) ==
    IF KeysSetOf(s, m) = {} THEN 0
    ELSE s.cont[CHOOSE K \in KeysSetOf(s, m) : TRUE].length

\* len(map)
MapLen(m) ==
    /\ UNCHANGED <<g, h, appended, assigned, obs>>
    /\ IF PreCheckFails(m)
       THEN res' = Result("maplen", m, "", 0, "ObjectDeletedError")
       ELSE res' = Result("maplen", m, "", MapLenOf(g, m), "")

NextMap ==
    \/ \E m \in MapNames, key \in ListElements, value \in {"e1", "e4"} :
          MapSetItem(m, key, value)
    \/ \E m \in MapNames, key \in Elements : MapDelItem(m, key)
    \/ \E m \in MapNames, key \in Elements : MapLookup(m, key)
    \/ \E m \in MapNames, key \in Elements : MapContains(m, key)
    \/ \E m \in MapNames : MapLen(m)

SpecMap == Init /\ [][NextMap]_vars

MapTags(s, m) ==
    <<UNION {HashTags(s, K) : K \in KeysSetOf(s, m)},
      UNION {HashTags(s, V) : V \in ValuesSetOf(s, m)}>>

\* the step is map[key] or del map[key] for a key the map does not have
AbsentKeyStep(m, key) ==
    /\ res'.op \in {"getkey", "delkey"}
    /\ res'.c = m /\ res'.o = key
    /\ ~ PreCheckFails(m)
    /\ ~ \E K \in KeysSetOf(g, m) : ContainsHash(g, K, NeoadsHash(key))

\* C16: map[k] and del map[k] for a key that is not present raise KeyError
\* and leave the contents of the key set and of the value set unchanged, for a
\* map that has other keys and for a map that was never written to.
C16_AbsentKeyFault ==
    [][\A m \in MapNames, key \in Elements :
          AbsentKeyStep(m, key) =>
             /\ res'.exc = "KeyError"
             /\ MapTags(g', m) = MapTags(g, m)
             /\ UsedItems(g') = UsedItems(g)
             /\ g'.val = g.val]_vars

\* the hashes of the keys assigned and not deleted since
PresentKeys == {hv \in Hashes : assigned[hv] # NoElem}

C29_LazyComponentSets ==
    [][\A m \in MapNames :
          /\ (res'.c = m /\ res'.op \in {"haskey", "getkey", "maplen"}) => g' = g
          /\ (KeysSetOf(g, m) = {} /\ KeysSetOf(g', m) # {}) =>
                (res'.c = m /\ res'.op = "setitem")]_vars

(* ------------------------------ hashing of containers ---------------- *)
\* a hashing that gives every object a hash
HashableAny(x) == TRUE

\* the classes that define _neoads_hash are those of the payload elements;
\* AbstractDLList, AbstractSet and AbstractMap inherit PersistentElement's,
\* which raises TypeError
Hashable(x) == x \in Elements

\* x._neoads_hash(): the hash, or the TypeError
HashOf(x) ==
    IF Hashable(x) THEN [ok |-> TRUE, v |-> NeoadsHash(x)]
    ELSE [ok |-> FALSE, v |-> 0]

\* the objects handed to add and used as keys: elements and saved containers
Objects == MergeElements \cup {"u", "V", "m"}

\* set.add(x) for any PersistentElement x: x._neoads_hash() is evaluated
\* before anything is written
SetAddObject(S, x) ==
    IF x \in Elements THEN SetAdd(S, x)
    ELSE /\ Live(x)
         /\ IF HashOf(x).ok
            THEN /\ g' = AddWithHashStore(g, S, x, HashOf(x).v)
                 /\ res' = Result("add", S, x, 1, "")
            ELSE /\ g' = g
                 /\ res' = Result("add", S, x, 0, "TypeError")
         /\ UNCHANGED <<h, appended, assigned, obs>>

\* map[x] = value for any PersistentElement x: `key in self.keys_set[0]`
\* hashes the key; on a map without component sets the IndexError comes
\* first and _init_map() runs before keys_set[0].add(key) hashes it
MapSetItemObject(m, x, value) ==
    IF x \in Elements THEN MapSetItem(m, x, value)
    ELSE /\ Live(x) /\ value \in g.elem
         /\ UNCHANGED <<appended, assigned, obs>>
         /\ IF PreCheckFails(m)
            THEN /\ res' = Result("setitem", m, x, 0, "ObjectDeletedError")
                 /\ UNCHANGED <<g, h>>
            ELSE \E s1 \in {IF KeysSetOf(g, m) = {} \/ ValuesSetOf(g, m) = {}
                             THEN InitMap(g, m) ELSE g} :
                 /\ NamesLeft(g, 2)
                 /\ h' = NewHandles(h, g, s1)
                 /\ IF HashOf(x).ok
                    THEN /\ \E K \in KeysSetOf(s1, m), V \in ValuesSetOf(s1, m) :
                              g' = AddWithHashStore(
                                      AddWithHashStore(s1, K, x, HashOf(x).v),
                                      V, value, HashOf(x).v)
                         /\ res' = Result("setitem", m, x, 0, "")
                    ELSE /\ g' = s1
                         /\ res' = Result("setitem", m, x, 0, "TypeError")

\* room for one more wrapper item
HashRoom == Cardinality(UsedItems(g)) < MaxItems

NextHash ==
    \/ \E x \in Objects : HashRoom /\ SetAddObject("U", x)
    \/ \E x \in Objects : HashRoom /\ MapSetItemObject("m", x, "e1")
    \/ \E hv \in {NeoadsHash(e) : e \in MergeElements} : SetRemoveByHash("U", hv)

SpecHash == Init /\ [][NextHash]_vars

\* every wrapper item attached to a set, whatever the set
AllMembers(s) == {i \in ItemIds : \E n \in Names : <<n, i>> \in s.member}

\* C17: hashing a list, a set or a map raises TypeError, so set.add(c) and
\* map[c] = v with a container c raise it and add no wrapper item to the set
\* or to the map's key set or value set.
C17_ContainersUnhashable ==
    [][/\ \A c \in ListNames \cup SetNames \cup MapNames : ~ HashOf(c).ok
       /\ (res'.op \in {"add", "setitem"} /\ res'.o \in Names
             /\ ~ PreCheckFails(res'.c)) =>
             /\ res'.exc = "TypeError"
             /\ UsedItems(g') = UsedItems(g)
             /\ AllMembers(g') = AllMembers(g)]_vars

C17_Witness ==
    /\ res.op = "setitem" /\ res.exc = "TypeError" /\ res.o = "V"
    /\ \E K \in KeysSetOf(g, res.c) : SetMembers(g, K) # {}

(* ------------------------------ type checks --------------------------- *)
\* objects that are no PersistentElement: a Python number, a Python string
PlainObjects == {"py_7", "py_text"}

\* a test that lets every object through
IsPersistentElementAny(x) == TRUE

\* isinstance(x, PersistentElement): payload elements and containers
IsPersistentElement(x) == x \in Elements \cup Names

\* list.append(x): pre-action check, type test, then the item is saved and
\* connected to x
ListAppendAny(l, x) ==
    IF PreCheckFails(l) \/ x \in g.elem THEN ListAppend(l, x)
    ELSE /\ UNCHANGED <<h, appended, assigned, obs>>
         /\ IF ~ IsPersistentElement(x)
            THEN /\ g' = g
                 /\ res' = Result("append", l, x, 0, "TypeError")
            ELSE \* DLListItem().save(), then value.connect(x) fails
                 /\ g' = CreateItem(g, FreshItem(g), "DLListItem", NoHash)
                 /\ res' = Result("append", l, x, 0, "ValueError")

\* set.add(x): type test, then x._neoads_hash()
SetAddAny(S, x) ==
    IF x \in g.elem THEN SetAdd(S, x)
    ELSE /\ UNCHANGED <<g, h, appended, assigned, obs>>
         /\ res' = Result("add", S, x, 0,
                          IF ~ IsPersistentElement(x) THEN "TypeError"
                          ELSE "AttributeError")

\* set.add_with_hash(x, hv): type test, contains_hash(hv), then the item is
\* saved and connected to x
SetAddWithHashAny(S, x, hv) ==
    IF x \in g.elem THEN SetAddWithHash(S, x, hv)
    ELSE /\ UNCHANGED <<h, appended, assigned, obs>>
         /\ IF ~ IsPersistentElement(x)
            THEN /\ g' = g
                 /\ res' = Result("add_with_hash", S, x, 0, "TypeError")
            ELSE IF ContainsHash(g, S, hv)
            THEN /\ g' = g
                 /\ res' = Result("add_with_hash", S, x, 0, "")
            ELSE \* SetItem(hash_value=hv).save(), then value.connect(x) fails
                 /\ g' = CreateItem(g, FreshItem(g), "SetItem", HexDigits(hv))
                 /\ res' = Result("add_with_hash", S, x, 0, "ValueError")

\* map[key] = x: pre-action check, type test of the value, then the sets
MapSetItemAny(m, key, x) ==
    IF PreCheckFails(m) \/ x \in g.elem THEN MapSetItem(m, key, x)
    ELSE /\ key \in g.elem
         /\ UNCHANGED <<appended, assigned, obs>>
         /\ IF ~ IsPersistentElement(x)
            THEN /\ res' = Result("setitem", m, x, 0, "TypeError")
                 /\ UNCHANGED <<g, h>>
            ELSE \* the sets are created and the key is added before
                 \* add_with_hash fails at value.connect(x)
                 \E s1 \in {IF KeysSetOf(g, m) = {} \/ ValuesSetOf(g, m) = {}
                             THEN InitMap(g, m) ELSE g} :
                    /\ NamesLeft(g, 2)
                    /\ g' = s1
                    /\ h' = NewHandles(h, g, s1)
                    /\ res' = Result("setitem", m, x, 0, "ValueError")

TypedRoom == Cardinality(UsedItems(g)) < MaxItems

NextTyped ==
    \/ \E x \in MergeElements \cup PlainObjects : TypedRoom /\ ListAppendAny("u", x)
    \/ \E x \in MergeElements \cup PlainObjects : TypedRoom /\ SetAddAny("U", x)
    \/ \E x \in MergeElements \cup PlainObjects, hv \in Hashes :
          TypedRoom /\ SetAddWithHashAny("U", x, hv)
    \/ \E key \in MergeElements, x \in MergeElements \cup PlainObjects :
          TypedRoom /\ MapSetItemAny("m", key, x)

SpecTyped == Init /\ [][NextTyped]_vars

\* C27: list.append(x), set.add(x), set.add_with_hash(x, h) and map[k] = x
\* with x not a PersistentElement raise TypeError before any store write: no
\* wrapper item is created, no component set is allocated, and the
\* container's contents and length are unchanged.
C27_TypeFaultWritesNothing ==
    [][res'.o \in PlainObjects =>
          /\ res'.op \in {"append", "add", "add_with_hash", "setitem"}
          /\ res'.exc = "TypeError"
          /\ g' = g
          /\ h' = h]_vars

C27_Witness ==
    /\ res.op = "setitem" /\ res.o = "py_7" /\ res.exc = "TypeError"
    /\ KeysSetOf(g, "m") = {}
    /\ ChainItems(g, "u") # {}
    /\ SetMembers(g, "U") # {}

(* ------------------------------ set: operators ------------------------ *)
\* the items of a pattern (...)-[:ABSTRACT_STRUCT_ITEM_VALUE]->(a_value)
WithValue(s, I) == {i \in I : s.val[i] # NoElem}

\* (a_set{name})-[:SET_ELEMENT]->(item:AbstractStructItem)
MembersAny(s, S) == {i \in ItemIds : <<S, i>> \in s.member}

\* a copy that attaches the rows' own wrapper items to the new set
CopyItemsShared(s, S, R) == [s EXCEPT !.member = @ \cup {<<S, r>> : r \in R}]

RECURSIVE CopyItems(_, _, _)
\* CREATE (new_set)-[:SET_ELEMENT]->(:SetItem{hash_value: r.hash_value})
\*        -[:ABSTRACT_STRUCT_ITEM_VALUE]->(value of r), once for every row r
CopyItems(s, S, R) ==
    IF R = {} THEN s
    ELSE LET r == CHOOSE x \in R : \A y \in R : x <= y
             i == FreshItem(s)
             s1 == ConnectMember(
                      ConnectValue(CreateItem(s, i, "SetItem", s.item[r].hash),
                                   i, s.val[r]), S, i)
         IN CopyItems(s1, S, R \ {r})

\* AbstractSet.clear: the wrapper items of the set that still have a value edge
SetClearStore(s, S) == DetachDeleteItems(s, WithValue(s, SetMembers(s, S)))

\* from_abstractset(other, auto_reset=True): clear, then copy the items found
\* along (other_set)-[:DLL_NXT*]->(an_element)-[:ABSTRACT_STRUCT_ITEM_VALUE]->()
FromAbstractSetStore(s, new, other) ==
    LET s1 == SetClearStore(s, new)
    IN CopyItems(s1, new, WithValue(s1, ChainItems(s1, other)))

\* self - other: the rows of the difference query
DiffRows(s, A, B) ==
    {a \in WithValue(s, SetMembers(s, A)) : s.item[a].hash \notin HashTags(s, B)}

\* __sub__
SubStore(s, A, B, n) == CopyItems(SaveNew(s, n, "set"), n, DiffRows(s, A, B))

\* __xor__: the two difference queries write into the same new set
XorStore(s, A, B, n) ==
    LET s1 == CopyItems(SaveNew(s, n, "set"), n, DiffRows(s, A, B))
    IN CopyItems(s1, n, DiffRows(s1, B, A))

\* __and__: the items of other whose tag is among the tags of self
AndStore(s, A, B, n) ==
    CopyItems(SaveNew(s, n, "set"), n,
              {b \in WithValue(s, SetMembers(s, B)) : s.item[b].hash \in HashTags(s, A)})

\* __or__: the new set is initialised from other when len(self) = 0 and from
\* self otherwise; the union query starts from the items of the new set, so it
\* has no row when the new set is empty
OrStore(s, A, B, lenA, n) ==
    LET s1 == FromAbstractSetStore(SaveNew(s, n, "set"), n,
                                   IF lenA = 0 THEN B ELSE A)
        own == {s1.item[i].hash : i \in MembersAny(s1, n)}
    IN IF MembersAny(s1, n) = {} THEN s1
       ELSE CopyItems(s1, n,
                      {o \in WithValue(s1, MembersAny(s1, B)) : s1.item[o].hash \notin own})

\* how many wrapper items of the set carry the tag t
TagCount(s, S, t) == Cardinality({i \in SetMembers(s, S) : s.item[i].hash = t})

\* __eq__: False on different len(); otherwise the query compares the ordered
\* tag collections and returns no row when either set has no wrapper item
SetEq(s, lenA, lenB, A, B) ==
    IF lenA # lenB THEN "False"
    ELSE IF SetMembers(s, A) = {} \/ SetMembers(s, B) = {} THEN "IndexError"
    ELSE IF \A t \in HashTags(s, A) \cup HashTags(s, B) :
               TagCount(s, A, t) = TagCount(s, B, t)
    THEN "True" ELSE "False"

\* A == B on two sets
SetEquals(A, B) ==
    /\ \E r \in {SetEq(g, h[A].length, h[B].length, A, B)} :
          res' = Result("eq", A, B, IF r = "True" THEN 1 ELSE 0,
                        IF r = "IndexError" THEN r ELSE "")
    /\ UNCHANGED <<g, h, appended, assigned, obs>>

NextEquality ==
    \/ \E S \in SetNames, e \in ListElements : SetRoom /\ SetAdd(S, e)
    \/ \E S \in SetNames, hv \in Hashes : SetRemoveByHash(S, hv)
    \/ \E A \in SetNames, B \in SetNames : SetEquals(A, B)

SpecEquality == Init /\ [][NextEquality]_vars

\* C20: U == V returns true exactly when U and V hold the same collection of
\* hash tags and false otherwise; it returns false whenever the lengths differ,
\* and true for two empty sets and for a set compared with itself.
C20_SetEquality ==
    res.op = "eq" =>
        /\ res.exc = ""
        /\ res.arg = 1 <=> HashTags(g, res.c) = HashTags(g, res.o)
        /\ h[res.c].length # h[res.o].length => res.arg = 0

\* destroy() of a set whose len() is 0: clear(), then the node is deleted
SetDestroyStore(s, S) == DeleteNode(SetClearStore(s, S), S)

RECURSIVE DestroyAll(_, _)
DestroyAll(s, q) ==
    IF q = <<>> THEN s ELSE DestroyAll(SetDestroyStore(s, Head(q)), Tail(q))

\* new_set.refresh(): the handle's length is the stored one
Refreshed(s, n) == s.cont[n].length

\* the operator chain of test_logic_operators on the sets A and B, with A | B
\* added: umv = A - B, vmu = B - A, umv | vmu, A ^ B, A & B, A | B; the result
\* sets are destroyed after their contents have been observed
SetOperators(A, B) ==
    /\ A # B
    /\ NamesLeft(g, 6)
    /\ \E s1 \in {SubStore(g, A, B, FreshName(g))} :
       \E s2 \in {SubStore(s1, B, A, FreshName(s1))} :
       \E s3 \in {OrStore(s2, FreshName(g), FreshName(s1),
                          Refreshed(s2, FreshName(g)), FreshName(s2))} :
       \E s4 \in {XorStore(s3, A, B, FreshName(s3))} :
       \E s5 \in {AndStore(s4, A, B, FreshName(s4))} :
       \E s6 \in {OrStore(s5, A, B, h[A].length, FreshName(s5))} :
          LET umv_or_vmu == FreshName(s2)
              uv_symdiff == FreshName(s3)
              u_and_v == FreshName(s4)
              u_or_v == FreshName(s5)
          IN /\ obs' = [ran |-> TRUE,
                        diffs |-> HashTags(s6, umv_or_vmu),
                        xor |-> HashTags(s6, uv_symdiff),
                        eq |-> SetEq(s6, Refreshed(s6, umv_or_vmu),
                                     Refreshed(s6, uv_symdiff),
                                     umv_or_vmu, uv_symdiff),
                        both |-> HashTags(s6, u_and_v),
                        either |-> HashTags(s6, u_or_v),
                        lens |-> <<Refreshed(s6, u_and_v), Refreshed(s6, uv_symdiff),
                                   Refreshed(s6, u_or_v)>>]
             /\ g' = DestroyAll(s6, <<FreshName(g), FreshName(s1), umv_or_vmu,
                                      uv_symdiff, u_and_v, u_or_v>>)
    /\ res' = Result("operators", A, B, 0, "")
    /\ UNCHANGED <<h, appended, assigned>>

NextAlgebra ==
    \/ \E S \in SetNames, e \in {"e1", "e2", "e4"} : SetRoom /\ SetAdd(S, e)
    \/ \E S \in SetNames, hv \in Hashes : SetRemoveByHash(S, hv)
    \/ \E A \in SetNames, B \in SetNames : SetOperators(A, B)

SpecAlgebra == Init /\ [][NextAlgebra]_vars

\* C6: for any sets U and V, (U - V) | (V - U) has the hash membership of U ^ V
\* and compares equal to it, U & V holds exactly the hashes common to U and V,
\* and len(U & V) + len(U ^ V) = len(U | V).
C6_SetAlgebra ==
    res.op = "operators" =>
        /\ obs.diffs = obs.xor
        /\ obs.eq = "True"
        /\ obs.both = HashTags(g, res.c) \cap HashTags(g, res.o)
        /\ obs.lens[1] + obs.lens[2] = obs.lens[3]
        /\ obs.either = HashTags(g, res.c) \cup HashTags(g, res.o)

(* ------------------------------ delete / destroy ---------------------- *)
\* len(container) as the class computes it: the handle's length for a list or
\* a set, len(self.keys_set[0]) for a map and 0 when the map has no key set
LenOf(s, hh, c) ==
    IF s.cont[c].kind = "map"
    THEN IF KeysSetOf(s, c) = {} THEN 0
         ELSE hh[CHOOSE K \in KeysSetOf(s, c) : TRUE].length
    ELSE hh[c].length

\* CompositeAbstract.delete
Delete(c) ==
    /\ UNCHANGED <<appended, assigned, obs>>
    /\ IF PreCheckFails(c)
       THEN /\ res' = Result("delete", c, "", 0, "ObjectDeletedError")
            /\ UNCHANGED <<g, h>>
       ELSE IF LenOf(g, h, c) > 0
       THEN /\ res' = Result("delete", c, "", 0, "ContainerNotEmpty")
            /\ UNCHANGED <<g, h>>
       ELSE /\ g' = DeleteNode(g, c)
            /\ h' = [h EXCEPT ![c].deleted = TRUE]
            /\ res' = Result("delete", c, "", 0, "")

\* destroy() on the store: clear(), then delete() with the length clear() left
DestroyStore(s, c) ==
    IF s.cont[c].kind = "list" THEN DeleteNode(ListClearStore(s, c), c)
    ELSE IF s.cont[c].kind = "set" THEN SetDestroyStore(s, c)
    ELSE IF KeysSetOf(s, c) = {} \/ ValuesSetOf(s, c) = {}
    THEN \* IndexError at keys_set[0] or values_set[0]: just delete the map
         DeleteNode(s, c)
    ELSE DeleteNode(DestroyAll(s, <<CHOOSE K \in KeysSetOf(s, c) : TRUE,
                                    CHOOSE V \in ValuesSetOf(s, c) : TRUE>>), c)

\* the handles destroy() marks deleted: the container's and, for a map, those
\* of its two sets
DestroyedHandles(s, c) ==
    IF s.cont[c].kind = "map" THEN {c} \cup KeysSetOf(s, c) \cup ValuesSetOf(s, c)
    ELSE {c}

Destroy(c) ==
    /\ UNCHANGED <<assigned, obs>>
    /\ IF PreCheckFails(c)
       THEN /\ res' = Result("destroy", c, "", 0, "ObjectDeletedError")
            /\ UNCHANGED <<g, h, appended>>
       ELSE IF g.cont[c].kind = "set" /\ h[c].length > 0
       THEN \* clear() has run when delete() refuses
            /\ g' = SetClearStore(g, c)
            /\ res' = Result("destroy", c, "", 0, "ContainerNotEmpty")
            /\ UNCHANGED <<h, appended>>
       ELSE /\ g' = DestroyStore(g, c)
            /\ h' = [n \in Names |->
                       IF n \in DestroyedHandles(g, c)
                       THEN [length |-> 0, deleted |-> TRUE] ELSE h[n]]
            /\ appended' = IF c \in ListNames
                           THEN [appended EXCEPT ![c] = <<>>] ELSE appended
            /\ res' = Result("destroy", c, "", 0, "")

\* an_element.delete(): the payload node goes, with the value edges to it
ElementDelete(e) ==
    /\ e \in g.elem
    /\ g' = DetachDeleteElem(g, e)
    /\ res' = Result("delete_element", "", e, 0, "")
    /\ UNCHANGED <<h, appended, assigned, obs>>

\* MemoryManager.get_object: the node of this name, or the fault
GetObject(s, n) == IF s.cont[n].kind # "none" THEN n ELSE "ObjectNotFound"

(* ------------------------------ garbage_collect ----------------------- *)
\* NOT ()-[]->(a) for a container: no KEYS_SET or VALUES_SET edge arrives at it
Unreferenced(s, n) == ~ \E m \in Names : <<m, n>> \in s.keys \/ <<m, n>> \in s.vals

\* the container has an edge of its own: a head, an element, a key or value set
HasOutgoing(s, n) ==
    \/ \E i \in ItemIds : <<n, i>> \in s.head \/ <<n, i>> \in s.member
    \/ \E k \in Names : <<n, k>> \in s.keys \/ <<n, k>> \in s.vals

\* pass 1: anonymous maps with both sets that nothing points at
OrphanMaps(s) ==
    {a \in Names : /\ s.cont[a].kind = "map" /\ IsAnonymous(a)
                   /\ KeysSetOf(s, a) # {} /\ ValuesSetOf(s, a) # {}
                   /\ Unreferenced(s, a)}

SweepMaps(s) == DetachDeleteConts(s, OrphanMaps(s))

\* pass 2: anonymous sets with at least one SetItem that nothing points at
OrphanSets(s) ==
    {a \in Names : /\ s.cont[a].kind = "set" /\ IsAnonymous(a)
                   /\ SetMembers(s, a) # {}
                   /\ Unreferenced(s, a)}

SweepSets(s) ==
    DetachDeleteConts(
        DetachDeleteItems(s, UNION {SetMembers(s, a) : a \in OrphanSets(s)}),
        OrphanSets(s))

\* pass 3: the items the query takes for severed heads: a next item, an item
\* whose previous edge points here, no previous edge and no item's next edge
\* pointing here
SeveredHeads(s) ==
    {b \in ListItems(s) :
        /\ NxtOf(s, b) # {}
        /\ \E j \in ListItems(s) : <<j, b>> \in s.prv
        /\ PrvOf(s, b) = {}
        /\ ~ \E j \in ListItems(s) : <<j, b>> \in s.nxt}

\* MATCH p=(b)-[:DLL_NXT*]->(:DLListItem) DETACH DELETE p
SweepChains(s) == DetachDeleteItems(s, ForwardFrom(s, SeveredHeads(s)))

\* pass 4: every anonymous top-level node nothing points at; the payload
\* elements of the model were saved without a name
LingeringConts(s) ==
    {a \in Names : s.cont[a].kind # "none" /\ IsAnonymous(a) /\ Unreferenced(s, a)}

LingeringElems(s) == {e \in s.elem : ~ \E i \in ItemIds : s.val[i] = e}

\* plain DELETE refuses a node that still has relationships
SweepRefused(s) == \E a \in LingeringConts(s) : HasOutgoing(s, a)

SweepLingering(s) ==
    IF SweepRefused(s) THEN s
    ELSE [DetachDeleteConts(s, LingeringConts(s)) EXCEPT
             !.elem = @ \ LingeringElems(s)]

GarbageCollect ==
    /\ \E s3 \in {SweepChains(SweepSets(SweepMaps(g)))} :
          /\ g' = SweepLingering(s3)
          /\ res' = Result("gc", "", "", 0,
                           IF SweepRefused(s3) THEN "ConstraintError" ELSE "")
    /\ UNCHANGED <<h, appended, assigned, obs>>

(* ------------------------------ the full specification ---------------- *)
ItemRoom == Cardinality(UsedItems(g)) < MaxItems

\* the containers the lifecycle specification works on
Containers == {"u", "U", "m"}

\* populated containers, their direct deletion and destruction, and the
\* deletion of payload elements
Next ==
    \/ \E e \in MergeElements : ItemRoom /\ Live("u") /\ ListAppend("u", e)
    \/ \E e \in MergeElements : ItemRoom /\ Live("U") /\ SetAdd("U", e)
    \/ \E key \in MergeElements :
          ItemRoom /\ Live("m") /\ MapSetItem("m", key, "e2")
    \/ \E c \in Containers : Live(c) /\ Delete(c)
    \/ \E c \in Containers : Live(c) /\ Destroy(c)
    \/ \E e \in MergeElements : ElementDelete(e)

Spec == Init /\ [][Next]_vars

\* lists under the maintenance sweep
NextSweep ==
    \/ \E l \in ListNames, e \in MergeElements :
          ItemRoom /\ Live(l) /\ ListAppend(l, e)
    \/ \E l \in ListNames, idx \in 0..MaxItems - 1 : Live(l) /\ ListDelItem(l, idx)
    \/ \E l \in ListNames : Create(l)
    \/ GarbageCollect

SpecSweep == Init /\ [][NextSweep]_vars

\* the wrapper items a container holds
Contents(s, c) ==
    IF s.cont[c].kind = "list" THEN ChainItems(s, c)
    ELSE IF s.cont[c].kind = "set" THEN SetMembers(s, c)
    ELSE UNION {SetMembers(s, K) : K \in KeysSetOf(s, c) \cup ValuesSetOf(s, c)}

C9_SweepSparesLiveLists ==
    [][res'.op = "gc" =>
          \A l \in ListNames :
             g.cont[l].kind = "list" =>
                /\ ChainItems(g, l) \subseteq UsedItems(g')
                /\ g'.cont[l].kind = "list" =>
                      /\ g'.cont[l].length = Cardinality(ChainItems(g', l))
                      /\ ChainValues(g', l, g'.cont[l].length)
                            = ChainValues(g, l, g.cont[l].length)]_vars

(* ------------------------------ list: from_query / from_id_array ------ *)
\* rows a construction query may yield
MaxRows == 2

\* the results of the READ queries handed to from_query: the ListItem of each
\* row, in the order the store yields the rows
RowSeqs == UNION {[1..n -> MergeElements] : n \in 0..MaxRows}

Range(q) == {q[k] : k \in 1..Len(q)}

\* WITH a_list, ListItem, count(ListItem) as ListItem_CNT: one row per ListItem,
\* in an order of the store's choosing
Grouped(q) == {r \in RowSeqs : Len(r) = Cardinality(Range(q)) /\ Range(r) = Range(q)}

RECURSIVE StageRows(_, _, _)
\* per row: CREATE (a_list)-[:TEMP_LINK{item_id: a_list.length}]->(an_item)
\*          -[:ABSTRACT_STRUCT_ITEM_VALUE]->(ListItem) SET a_list.length = a_list.length + 1
StageRows(s, l, rows) ==
    IF rows = <<>> \/ s.cont[l].kind = "none" THEN s
    ELSE LET i == FreshItem(s)
             s1 == ConnectValue(CreateItem(s, i, "DLListItem", NoHash), i, Head(rows))
         IN StageRows([s1 EXCEPT !.temp = @ \cup {<<l, i, s.cont[l].length>>},
                                 !.cont[l].length = @ + 1],
                      l, Tail(rows))

\* staging edges matched without regard to the list they start from
TempLinksAny(s, l) == {r \in s.temp : s.item[r[2]].label = "DLListItem"}

\* the staging edges of the list l
TempLinks(s, l) ==
    {r \in s.temp : r[1] = l /\ s.item[r[2]].label = "DLListItem"}

\* r1.item_id < a_list.length, r2.item_id = r1.item_id + 1: CREATE (this)-[:DLL_NXT]->(next)
LinkForward(s, l) ==
    [s EXCEPT !.nxt = @ \cup
        {<<y[1][2], y[2][2]>> : y \in
            {z \in TempLinks(s, l) \X TempLinks(s, l) :
                z[1][3] < s.cont[l].length /\ z[2][3] = z[1][3] + 1}}]

\* a construction that creates no previous edges
LinkBackwardNot(s, l) == s

\* r1.item_id > 0, r2.item_id = r1.item_id - 1: CREATE (this)-[:DLL_PRV]->(previous)
LinkBackward(s, l) ==
    [s EXCEPT !.prv = @ \cup
        {<<y[1][2], y[2][2]>> : y \in
            {z \in TempLinks(s, l) \X TempLinks(s, l) :
                z[1][3] > 0 /\ z[2][3] = z[1][3] - 1}}]

\* TEMP_LINK{item_id:0}: CREATE (a_list)-[:DLL_NXT]->(a_list_item)
ConnectStagedHead(s, l) ==
    [s EXCEPT !.head = @ \cup {<<l, r[2]>> : r \in {x \in TempLinks(s, l) : x[3] = 0}}]

\* MATCH (a_list)-[r:TEMP_LINK]->(:DLListItem) DELETE r
DeleteTempLinks(s, l) == [s EXCEPT !.temp = @ \ TempLinks(s, l)]

\* the queries of from_query after the emptiness test, with the debugger
\* stops between them resumed
FromQueryStore(s, l, rows) ==
    DeleteTempLinks(
        ConnectStagedHead(
            LinkBackward(
                LinkForward(StageRows(SaveLength(s, l, 0), l, rows), l), l), l), l)

\* the part of from_query and from_id_array that follows the pre-action check
\* and the choice of the rows
BuildList(op, l, rows, auto_reset) ==
    IF ~ auto_reset /\ h[l].length > 0
    THEN /\ res' = Result(op, l, "", Len(rows), "ContainerNotEmpty")
         /\ UNCHANGED <<g, h, appended>>
    ELSE \E s0 \in {IF auto_reset THEN ListClearStore(g, l) ELSE g} :
         \E s1 \in {FromQueryStore(s0, l, rows)} :
            /\ g' = s1
            \* self.refresh()
            /\ h' = [h EXCEPT ![l].length = s1.cont[l].length]
            /\ appended' = [appended EXCEPT ![l] = rows]
            /\ res' = Result(op, l, IF auto_reset THEN "reset" ELSE "", Len(rows), "")

ListFromQuery(l, q, auto_reset, no_duplicates) ==
    /\ Range(q) \subseteq g.elem
    /\ UNCHANGED <<assigned, obs>>
    /\ IF PreCheckFails(l)
       THEN /\ res' = Result("from_query", l, "", Len(q), "ObjectDeletedError")
            /\ UNCHANGED <<g, h, appended>>
       ELSE \E rows \in (IF no_duplicates THEN Grouped(q) ELSE {q}) :
               BuildList("from_query", l, rows, auto_reset)

\* the arrays of node ids handed to from_id_array
IdArrays == SUBSET MergeElements

\* MATCH (ListItem) WHERE id(ListItem) in array.value: one row for each node
\* of the array that exists, in an order of the store's choosing
ListFromIdArray(l, ids, auto_reset) ==
    /\ UNCHANGED <<assigned, obs>>
    /\ IF PreCheckFails(l)
       THEN /\ res' = Result("from_id_array", l, "", 0, "ObjectDeletedError")
            /\ UNCHANGED <<g, h, appended>>
       ELSE \E rows \in {r \in RowSeqs : /\ Range(r) = ids \cap g.elem
                                        /\ Len(r) = Cardinality(Range(r))} :
               BuildList("from_id_array", l, rows, auto_reset)

(* ------------------------------ set: from_query / from_abstractset ---- *)
\* apoc.util.sha256 over the properties of SetElement other than its name: a
\* digest of the element's value (elements of equal value share it)
ApocHash(e) == (ElemValue(e) * 7) % 11

\* the SetElement nodes a query handed to Set.from_query may select
ElementSets == {I \in SUBSET ListElements : Cardinality(I) <= MaxRows}

SetRowSeqs == UNION {[1..n -> ListElements] : n \in 0..MaxRows}

\* order by digest, keep the first row of each run of equal digests
FinalSetElementAndHash(I) ==
    {r \in SetRowSeqs :
        /\ {r[k] : k \in 1..Len(r)} \subseteq I
        /\ {ApocHash(r[k]) : k \in 1..Len(r)} = {ApocHash(e) : e \in I}
        /\ \A k \in 1..Len(r) - 1 : ApocHash(r[k]) < ApocHash(r[k + 1])}

RECURSIVE StageSetRows(_, _, _, _)
\* CREATE (origin)-[:TEMP_LINK{item_id:set_item_idx}]->(:AbstractStructItem)
\*        -[:ABSTRACT_STRUCT_ITEM_VALUE]->(set_item)
StageSetRows(s, S, rows, k) ==
    IF rows = <<>> \/ s.cont[S].kind = "none" THEN s
    ELSE LET i == FreshItem(s)
             s1 == ConnectValue(CreateItem(s, i, "AbstractStructItem", NoHash),
                                i, Head(rows))
         IN StageSetRows([s1 EXCEPT !.temp = @ \cup {<<S, i, k>>}], S, Tail(rows), k + 1)

\* (a_set)-[r:TEMP_LINK]->(:AbstractStructItem)
SetTempLinks(s, S) == {r \in s.temp : r[1] = S}

\* the four linking queries of Set.from_query
LinkSetItems(s, S) ==
    LET T == SetTempLinks(s, S)
    IN [s EXCEPT
          !.nxt = @ \cup {<<y[1][2], y[2][2]>> :
                            y \in {z \in T \X T : z[2][3] = z[1][3] + 1}},
          !.prv = @ \cup {<<y[1][2], y[2][2]>> :
                            y \in {z \in T \X T : z[1][3] > 0 /\ z[2][3] = z[1][3] - 1}},
          !.head = @ \cup {<<S, r[2]>> : r \in {x \in T : x[3] = 0}},
          !.temp = @ \ T]

SetFromQuery(S, I, auto_reset) ==
    /\ I \subseteq g.elem
    /\ UNCHANGED <<appended, assigned, obs>>
    /\ IF PreCheckFails(S)
       THEN /\ res' = Result("set_from_query", S, "", 0, "ObjectDeletedError")
            /\ UNCHANGED <<g, h>>
       ELSE IF ~ auto_reset /\ h[S].length > 0
       THEN /\ res' = Result("set_from_query", S, "", 0, "ContainerNotEmpty")
            /\ UNCHANGED <<g, h>>
       ELSE \E rows \in FinalSetElementAndHash(I) :
            \E s0 \in {IF auto_reset THEN SetClearStore(g, S) ELSE g} :
            \E s1 \in {LinkSetItems(StageSetRows(s0, S, rows, 0), S)} :
               /\ g' = s1
               /\ h' = [h EXCEPT ![S].length = s1.cont[S].length]
               /\ res' = Result("set_from_query", S,
                                IF auto_reset THEN "reset" ELSE "", Len(rows), "")

\* a copy that attaches the other set's own items to this set
CopyFromChainShared(s, new, other) ==
    [s EXCEPT !.member = @ \cup {<<new, i>> : i \in WithValue(s, ChainItems(s, other))}]

\* the copying query of from_abstractset: the items found along
\* (other_set)-[:DLL_NXT*]->(an_element)-[:ABSTRACT_STRUCT_ITEM_VALUE]->()
CopyFromChain(s, new, other) ==
    IF s.cont[new].kind = "none" THEN s
    ELSE CopyItems(s, new, WithValue(s, ChainItems(s, other)))

SetFromAbstractSet(S, other, auto_reset) ==
    /\ UNCHANGED <<appended, assigned, obs>>
    /\ IF PreCheckFails(S)
       THEN /\ res' = Result("from_abstractset", S, other, 0, "ObjectDeletedError")
            /\ UNCHANGED <<g, h>>
       ELSE IF ~ auto_reset /\ h[S].length > 0
       THEN /\ res' = Result("from_abstractset", S, other, 0, "ContainerNotEmpty")
            /\ UNCHANGED <<g, h>>
       ELSE \E s0 \in {IF auto_reset THEN SetClearStore(g, S) ELSE g} :
            \E s1 \in {CopyFromChain(s0, S, other)} :
               /\ g' = s1
               /\ h' = [h EXCEPT ![S].length = s1.cont[S].length]
               /\ res' = Result("from_abstractset", S, other,
                                IF auto_reset THEN 1 ELSE 0, "")

(* ------------------------------ map: from_keyvalue_node_query --------- *)
\* AbstractMap.clear: both sets cleared, or created when the map has none
MapClearStore(s, m) ==
    IF KeysSetOf(s, m) = {} \/ ValuesSetOf(s, m) = {} THEN InitMap(s, m)
    ELSE SetClearStore(
             SetClearStore(s, CHOOSE V \in ValuesSetOf(s, m) : TRUE),
             CHOOSE K \in KeysSetOf(s, m) : TRUE)

\* CREATE (a_set)-[:SET_ELEMENT]->(:SetItem{hash_value: tag})-[value edge]->(e)
CreateTagged(s, S, tag, e) ==
    LET i == FreshItem(s)
    IN ConnectMember(ConnectValue(CreateItem(s, i, "SetItem", tag), i, e), S, i)

RECURSIVE CreateRows(_, _, _, _)
\* UNWIND of the list of [hash text, node]: a row is created for every pair
\* whose node the store still has
CreateRows(s, S, tags, nodes) ==
    IF tags = <<>> THEN s
    ELSE CreateRows(IF Head(nodes) \in s.elem
                    THEN CreateTagged(s, S, Head(tags), Head(nodes)) ELSE s,
                    S, Tail(tags), Tail(nodes))

\* from_hash_nodeid_list(pairs, auto_reset=True)
FromHashNodeIdList(s, S, tags, nodes) ==
    CreateRows(SetClearStore(s, S), S, tags, nodes)

\* the key collections and value collections a query can return
KeyCollections ==
    {q \in UNION {[1..n -> MergeElements] : n \in 0..MaxRows} :
        \A i, j \in 1..Len(q) : q[i] = q[j] => i = j}
ValueCollections == UNION {[1..n -> {"e1", "e4"}] : n \in 0..MaxRows}

\* the hash texts computed from the keys: f"{an_object._neoads_hash():x}"
HashValues(ks) == [i \in 1..Len(ks) |-> HexDigits(NeoadsHash(ks[i]))]

\* the key set, then the value set, both tagged with the hashes of the keys
BuildMapSets(s, m, ks, vs) ==
    LET s1 == FromHashNodeIdList(s, CHOOSE K \in KeysSetOf(s, m) : TRUE,
                                 HashValues(ks), ks)
    IN FromHashNodeIdList(s1, CHOOSE V \in ValuesSetOf(s, m) : TRUE,
                          HashValues(ks), vs)

\* the pairs of a bulk construction, as key hash -> value
PairsOf(ks, vs) ==
    [hv \in Hashes |->
        IF \E i \in 1..Len(ks) : NeoadsHash(ks[i]) = hv
        THEN vs[CHOOSE i \in 1..Len(ks) : NeoadsHash(ks[i]) = hv] ELSE NoElem]

MapFromKeyValue(m, ks, vs, auto_reset) ==
    /\ UNCHANGED <<appended, obs>>
    /\ IF PreCheckFails(m)
       THEN /\ res' = Result("fromkv", m, "", 0, "ObjectDeletedError")
            /\ UNCHANGED <<g, h, assigned>>
       ELSE IF ~ (auto_reset \/ KeysSetOf(g, m) = {}) /\ MapLenOf(g, m) > 0
       THEN /\ res' = Result("fromkv", m, "", 0, "ContainerNotEmpty")
            /\ UNCHANGED <<g, h, assigned>>
       ELSE /\ NamesLeft(g, 2)
            /\ \E s1 \in {IF auto_reset \/ KeysSetOf(g, m) = {}
                           THEN MapClearStore(g, m) ELSE g} :
                 /\ h' = NewHandles(h, g, s1)
                 /\ IF Len(ks) # Len(vs)
                    THEN /\ g' = s1
                         /\ assigned' = IF s1 = g THEN assigned
                                        ELSE [hv \in Hashes |-> NoElem]
                         /\ res' = Result("fromkv", m, "mismatch", Len(ks), "Exception")
                    ELSE /\ g' = BuildMapSets(s1, m, ks, vs)
                         /\ assigned' = PairsOf(ks, vs)
                         /\ res' = Result("fromkv", m, "equal", Len(ks), "")

NextMapBulk ==
    \/ \E key \in MergeElements, value \in {"e1", "e4"} :
          MapSetItem("m", key, value)
    \/ \E key \in MergeElements : MapDelItem("m", key)
    \/ \E ks \in KeyCollections, vs \in ValueCollections, auto_reset \in BOOLEAN :
          MapFromKeyValue("m", ks, vs, auto_reset)

SpecMapBulk == Init /\ [][NextMapBulk]_vars

\* C22: from_keyvalue_node_query with a key collection and a value collection
\* of equal length n leaves the map with len(map) = n, every key present and
\* map[key_i] = value_i; when the two lengths differ it raises an error and
\* adds no key and no value to the map.
C22_BuiltFromKeyValue ==
    [][\A m \in MapNames :
          (res'.op = "fromkv" /\ res'.c = m /\ ~ PreCheckFails(m)) =>
             /\ res'.o = "equal" =>
                   /\ res'.exc = ""
                   /\ MapLenOf(g', m) = res'.arg
                   /\ \A key \in Elements :
                         MapGetItem(g', m, key) =
                            {IF assigned'[NeoadsHash(key)] = NoElem THEN "KeyError"
                             ELSE assigned'[NeoadsHash(key)]}
             /\ res'.o = "mismatch" =>
                   /\ res'.exc = "Exception"
                   /\ MapTags(g', m)[1] \subseteq MapTags(g, m)[1]
                   /\ MapTags(g', m)[2] \subseteq MapTags(g, m)[2]]_vars

(* ------------------------------ bulk construction: specification ------ *)
\* wrapper items the bulk specification lets the store hold
MaxBulkItems == 4

BulkRoom(n) == Cardinality(UsedItems(g)) + n <= MaxBulkItems

\* the list u filled item by item and by query
NextListBulk ==
    \/ \E e \in MergeElements : BulkRoom(1) /\ ListAppend("u", e)
    \/ \E idx \in 0..1 : ListDelItem("u", idx)
    \/ \E q \in RowSeqs, auto_reset \in BOOLEAN, no_duplicates \in BOOLEAN :
          BulkRoom(Len(q)) /\ ListFromQuery("u", q, auto_reset, no_duplicates)
    \/ \E ids \in IdArrays, auto_reset \in BOOLEAN :
          BulkRoom(Cardinality(ids)) /\ ListFromIdArray("u", ids, auto_reset)

SpecListBulk == Init /\ [][NextListBulk]_vars

\* the step is a from_query or from_id_array of the list l that returned
BuiltList(l) ==
    /\ res'.op \in {"from_query", "from_id_array"}
    /\ res'.c = l /\ res'.exc = ""

\* C13: after from_query or from_id_array completes on an empty list with a
\* query yielding n rows, len(list) = n, exactly n wrapper items are reachable
\* from the head, the item at position k holds the element of row k (the item
\* staged with item_id 0 is the head, the one staged k+1 follows the one staged
\* k), next and previous edges are mutual inverses and no staging edge remains.
C13_BuiltFromQuery ==
    [][\A l \in ListNames :
          (BuiltList(l) /\ h[l].length = 0 /\ HeadsOf(g, l) = {}) =>
            LET n == res'.arg
                rows == appended'[l]
            IN /\ Len(rows) = n
               /\ h'[l].length = n
               /\ g'.cont[l].length = n
               /\ Cardinality(ChainItems(g', l)) = n
               /\ Cardinality(HeadsOf(g', l)) = IF n = 0 THEN 0 ELSE 1
               /\ ChainValues(g', l, n) = [k \in 1..n |-> {rows[k]}]
               /\ \A i, j \in ItemIds : <<i, j>> \in g'.nxt <=> <<j, i>> \in g'.prv
               /\ \A i \in ChainItems(g', l) : g'.item[i].label = "DLListItem"
               /\ g'.temp = {}]_vars

C13_Witness ==
    /\ res.op = "from_query" /\ res.exc = "" /\ res.o = "" /\ res.arg = 2
    /\ Cardinality(ChainItems(g, res.c)) = 2
    /\ appended[res.c][1] # appended[res.c][2]

MixedRoom(n) == Cardinality(UsedItems(g)) + n <= MaxItems

\* the list u and the sets U and V, filled item by item and by query
NextBulk ==
    \/ \E e \in MergeElements : MixedRoom(1) /\ ListAppend("u", e)
    \/ \E q \in RowSeqs, auto_reset \in BOOLEAN :
          MixedRoom(Len(q)) /\ ListFromQuery("u", q, auto_reset, FALSE)
    \/ \E ids \in IdArrays, auto_reset \in BOOLEAN :
          MixedRoom(Cardinality(ids)) /\ ListFromIdArray("u", ids, auto_reset)
    \/ \E e \in MergeElements : MixedRoom(1) /\ SetAdd("U", e)
    \/ \E I \in ElementSets, auto_reset \in BOOLEAN :
          MixedRoom(Cardinality(I)) /\ SetFromQuery("U", I, auto_reset)
    \/ \E S \in SetNames, other \in SetNames, auto_reset \in BOOLEAN :
          MixedRoom(Cardinality(ChainItems(g, other)))
             /\ SetFromAbstractSet(S, other, auto_reset)

SpecBulk == Init /\ [][NextBulk]_vars

\* the wrapper items a container holds, by either attachment: on the chain
\* from its head or, for a set, at the end of a SET_ELEMENT edge
HeldItems(s, c) ==
    IF s.cont[c].kind = "list" THEN ChainItems(s, c)
    ELSE MembersAny(s, c) \cup ChainItems(s, c)

HeldValues(s, c) == {s.val[i] : i \in HeldItems(s, c)}

\* the step is a bulk construction on the container c
BulkStep(c) ==
    /\ res'.op \in {"from_query", "from_id_array", "set_from_query", "from_abstractset"}
    /\ res'.c = c
    /\ ~ PreCheckFails(c)

\* the call asked for auto_reset
WithReset(r) == r.o = "reset" \/ (r.op = "from_abstractset" /\ r.arg = 1)

\* C14: a bulk construction with auto_reset false on a container whose length
\* is greater than zero raises ContainerNotEmpty and leaves the wrapper items
\* and the length unchanged; with auto_reset true the container afterwards
\* holds exactly the new result and nothing of its old contents.
C14_BulkResetRule ==
    [][\A c \in {"u"} \cup SetNames :
          /\ (BulkStep(c) /\ ~ WithReset(res') /\ h[c].length > 0) =>
                /\ res'.exc = "ContainerNotEmpty"
                /\ g' = g
                /\ h' = h
          /\ (BulkStep(c) /\ WithReset(res') /\ res'.exc = "") =>
                /\ c = "u" =>
                      /\ Cardinality(HeldItems(g', c)) = Len(appended'[c])
                      /\ ChainValues(g', c, Len(appended'[c]))
                            = [k \in 1..Len(appended'[c]) |-> {appended'[c][k]}]
                /\ res'.op = "set_from_query" =>
                      Cardinality(HeldItems(g', c)) = res'.arg
                /\ (res'.op = "from_abstractset" /\ res'.o # c) =>
                      /\ HeldValues(g', c) = HeldValues(g, res'.o)
                      /\ Cardinality(HeldItems(g', c))
                            = Cardinality(HeldItems(g, res'.o))]_vars

\* C23: after Set.from_query with rows of which several have the same property
\* hash, the set holds one wrapper item per distinct hash, len(set) is the
\* number of distinct hashes, each wrapper item carries its hash tag and a
\* membership edge from the set, `e in set` is true for every selected
\* element, and no staging edge remains.
C23_SetBuiltFromQuery ==
    [][\A S \in SetNames :
          (/\ res'.op = "set_from_query" /\ res'.c = S /\ res'.exc = ""
           /\ HeldItems(g, S) = {}) =>
             /\ Cardinality(HeldItems(g', S)) = res'.arg
             /\ h'[S].length = res'.arg
             /\ \A i \in HeldItems(g', S) :
                   /\ g'.item[i].hash # NoHash
                   /\ <<S, i>> \in g'.member
                   /\ ContainsHash(g', S, NeoadsHash(g'.val[i]))
             /\ SetTempLinks(g', S) = {}]_vars

\* the <<hash tag, element>> pairs of the set's wrapper items
TaggedValues(s, S) == {<<s.item[i].hash, s.val[i]>> : i \in SetMembers(s, S)}

Stops == 1..3

\* the queries of from_query that have run when it is left at a stop
StoppedStore(s, l, rows, stop) ==
    LET s1 == StageRows(SaveLength(s, l, 0), l, rows)
        s2 == LinkBackward(LinkForward(s1, l), l)
    IN IF stop = 1 THEN s1
       ELSE IF stop = 2 THEN s2
       ELSE ConnectStagedHead(s2, l)

\* from_query left at one of its stops (the debugger is quit): the queries
\* before the stop have run, the handle is not refreshed
ListFromQueryStopped(l, q, auto_reset, stop) ==
    /\ Range(q) \subseteq g.elem
    /\ UNCHANGED <<assigned, obs>>
    /\ IF PreCheckFails(l)
       THEN /\ res' = Result("from_query", l, "", Len(q), "ObjectDeletedError")
            /\ UNCHANGED <<g, h, appended>>
       ELSE IF ~ auto_reset /\ h[l].length > 0
       THEN /\ res' = Result("from_query", l, "", Len(q), "ContainerNotEmpty")
            /\ UNCHANGED <<g, h, appended>>
       ELSE \E s0 \in {IF auto_reset THEN ListClearStore(g, l) ELSE g} :
            /\ g' = StoppedStore(s0, l, q, stop)
            \* clear() has set the handle's length; the handle is not refreshed
            /\ h' = IF auto_reset THEN [h EXCEPT ![l].length = 0] ELSE h
            /\ appended' = IF auto_reset THEN [appended EXCEPT ![l] = <<>>]
                           ELSE appended
            /\ res' = Result("from_query", l, "stopped", stop, "BdbQuit")

\* one construction is stopped at a time: no staging edge is left from an
\* earlier one; the cached length is capped
NextOrphans ==
    \/ \E e \in MergeElements :
          /\ MixedRoom(1) /\ Live("u") /\ h["u"].length < MaxListItems
          /\ ListAppend("u", e)
    \/ \E q \in RowSeqs, auto_reset \in BOOLEAN, stop \in Stops :
          /\ MixedRoom(Len(q)) /\ Live("u") /\ g.temp = {}
          /\ ListFromQueryStopped("u", q, auto_reset, stop)
    \/ \E e \in MergeElements : MixedRoom(1) /\ Live("U") /\ SetAdd("U", e)
    \/ \E e \in MergeElements : ElementDelete(e)
    \/ \E c \in {"u", "U"} : Live(c) /\ Destroy(c)
    \/ GarbageCollect

SpecOrphans == Init /\ [][NextOrphans]_vars

\* the wrapper items some container of the store reaches
Attached(s) == UNION {HeldItems(s, c) : c \in {n \in Names : s.cont[n].kind # "none"}}

\* C25: after garbage_collect no wrapper item remains that no container
\* reaches: severed list chains, a single list item bound to no list, set
\* items linked to no set, and the items a bulk construction left behind when
\* it stopped between two phases are all deleted by the sweep.
C25_SweepLeavesNoOrphans ==
    [][(res'.op = "gc" /\ res'.exc = "") => UsedItems(g') \subseteq Attached(g')]_vars

(* ------------------------------ sweep of anonymous maps --------------- *)
\* the maps saved without a name
AnonMaps(s) == {a \in AnonPool : s.cont[a].kind = "map"}

\* AbstractMap().save(): a map under a generated name
CreateAnonMap ==
    /\ AnonMaps(g) = {}
    /\ NamesLeft(g, 3)
    /\ g' = SaveNew(g, FreshName(g), "map")
    /\ h' = [h EXCEPT ![FreshName(g)] = [length |-> 0, deleted |-> FALSE]]
    /\ res' = Result("new", FreshName(g), "", 0, "")
    /\ UNCHANGED <<appended, assigned, obs>>

NextMapSweep ==
    \/ CreateAnonMap
    \/ \E a \in AnonMaps(g), key \in MergeElements :
          ItemRoom /\ MapSetItem(a, key, "e1")
    \/ \E a \in AnonMaps(g), key \in MergeElements : MapContains(a, key)
    \/ \E e \in MergeElements : ItemRoom /\ Live("anon_v") /\ ListAppend("anon_v", e)
    \/ GarbageCollect

SpecMapSweep == Init /\ [][NextMapSweep]_vars

\* C26: for an anonymous map with no inbound reference and with allocated
\* component sets, one garbage_collect sweep removes the map node, both
\* component sets, empty or not, and all their wrapper items.
C26_SweepTakesAnonymousMap ==
    [][res'.op = "gc" =>
          \A a \in AnonMaps(g) :
             (Unreferenced(g, a) /\ KeysSetOf(g, a) # {} /\ ValuesSetOf(g, a) # {}) =>
                /\ g'.cont[a].kind = "none"
                /\ \A K \in KeysSetOf(g, a) \cup ValuesSetOf(g, a) :
                      /\ g'.cont[K].kind = "none"
                      /\ MembersAny(g, K) \cap UsedItems(g') = {}]_vars

(* ------------------------------ handles of removed containers --------- *)
\* len(list): the pre-action check, then the cached length of the handle
ListLen(l) ==
    /\ UNCHANGED <<g, h, appended, assigned, obs>>
    /\ IF PreCheckFails(l)
       THEN res' = Result("len", l, "", 0, "ObjectDeletedError")
       ELSE res' = Result("len", l, "", h[l].length, "")

\* lists used through their handles whether or not their node is still in
\* the store
NextFaults ==
    \/ \E l \in ListNames, e \in MergeElements : ListRoom /\ ListAppend(l, e)
    \/ \E l \in ListNames, o \in ListNames :
          Live(l) /\ Live(o) /\ ListExtendByMerging(l, o)
    \/ \E l \in ListNames : Live(l) /\ Destroy(l)
    \/ \E l \in ListNames : ListLen(l)

SpecFaults == Init /\ [][NextFaults]_vars

\* C28: a container operation invoked on a handle of a container already
\* removed from the store (after destroy(), or the absorbed list after
\* extend_by_merging) raises the deleted-object fault and writes nothing to
\* the store; on a container that has not been saved it raises the
\* unsaved-object fault.
C28_FaultOnRemovedContainer ==
    [][\A l \in ListNames :
          (res'.c = l /\ res'.op \in {"len", "append"} /\ ~ Live(l)) =>
             /\ res'.exc = "ObjectDeletedError"
             /\ g' = g]_vars

(* ------------------------------ clear --------------------------------- *)
\* clear() of a list, a set or a map
Clear(c) ==
    /\ UNCHANGED <<assigned, obs>>
    /\ IF PreCheckFails(c)
       THEN /\ res' = Result("clear", c, "", 0, "ObjectDeletedError")
            /\ UNCHANGED <<g, h, appended>>
       ELSE IF g.cont[c].kind = "list"
       THEN /\ g' = ListClearStore(g, c)
            /\ h' = [h EXCEPT ![c].length = 0]
            /\ appended' = [appended EXCEPT ![c] = <<>>]
            /\ res' = Result("clear", c, "", 0, "")
       ELSE IF g.cont[c].kind = "set"
       THEN /\ g' = SetClearStore(g, c)
            /\ res' = Result("clear", c, "", 0, "")
            /\ UNCHANGED <<h, appended>>
       ELSE /\ NamesLeft(g, 2)
            /\ g' = MapClearStore(g, c)
            /\ h' = NewHandles(h, g, MapClearStore(g, c))
            /\ res' = Result("clear", c, "", 0, "")
            /\ UNCHANGED appended

NextClear ==
    \/ \E e \in MergeElements : ItemRoom /\ ListAppend("u", e)
    \/ \E e \in MergeElements : ItemRoom /\ SetAdd("U", e)
    \/ \E key \in MergeElements : ItemRoom /\ MapSetItem("m", key, "e2")
    \/ \E e \in MergeElements : ElementDelete(e)
    \/ \E c \in Containers : Clear(c)

SpecClear == Init /\ [][NextClear]_vars

SetOps == {"or", "and", "sub", "xor"}

\* the store after A op B, the new set saved under the name n
OperatorStore(s, op, A, B, lenA, n) ==
    IF op = "or" THEN OrStore(s, A, B, lenA, n)
    ELSE IF op = "and" THEN AndStore(s, A, B, n)
    ELSE IF op = "sub" THEN SubStore(s, A, B, n)
    ELSE XorStore(s, A, B, n)

\* the position of a name among the names the store hands out
AnonIndex(n) == CHOOSE k \in 1..Len(AnonSeq) : AnonSeq[k] = n

\* A op B: both pre-action checks, a new saved set, the operator's queries,
\* new_set.refresh(); the result stays in the store, res.arg tells its name
SetOperator(op, A, B) ==
    /\ UNCHANGED <<appended, assigned, obs>>
    /\ IF PreCheckFails(A) \/ PreCheckFails(B)
       THEN /\ res' = Result(op, A, B, 0, "ObjectDeletedError")
            /\ UNCHANGED <<g, h>>
       ELSE \E n \in {FreshName(g)} :
            \E s1 \in {OperatorStore(g, op, A, B, h[A].length, n)} :
               /\ g' = s1
               /\ h' = [h EXCEPT ![n] = [length |-> Refreshed(s1, n),
                                         deleted |-> FALSE]]
               /\ res' = Result(op, A, B, AnonIndex(n), "")

MaxResults == 1
MaxOperandItems == 2

Results(s) == {n \in AnonPool : s.cont[n].kind = "set"}

OperandRoom ==
    Cardinality(UNION {SetMembers(g, S) : S \in SetNames}) < MaxOperandItems

\* room for one new item per operand item
ResultRoom(A, B) ==
    /\ Cardinality(Results(g)) < MaxResults
    /\ Cardinality(UsedItems(g))
          + Cardinality(SetMembers(g, A) \cup SetMembers(g, B)) <= MaxBulkItems

NextOperator ==
    \/ \E S \in SetNames, e \in MergeElements : OperandRoom /\ Live(S) /\ SetAdd(S, e)
    \/ \E op \in SetOps, A \in SetNames, B \in SetNames :
          ResultRoom(A, B) /\ SetOperator(op, A, B)
    \/ \E c \in SetNames \cup AnonPool : Live(c) /\ Destroy(c)

SpecOperator == Init /\ [][NextOperator]_vars

\* the wrapper items of a set with what each carries
ItemsOf(s, S) == {<<i, s.item[i], s.val[i]>> : i \in SetMembers(s, S)}

\* C31: each of |, &, -, ^ returns a newly saved set and leaves both operands
\* as they were (same wrapper items, same length); the items of the result are
\* new nodes whose values are values of operand items; destroying a set removes
\* no wrapper item of any other set.
C31_OperatorsLeaveOperands ==
    [][(/\ res'.op \in SetOps
        /\ res'.exc = ""
        => LET n == AnonSeq[res'.arg]
           IN /\ g.cont[n].kind = "none" /\ g'.cont[n].kind = "set"
              /\ n \notin {res'.c, res'.o}
              /\ \A S \in (SetNames \cup AnonPool) \ {n} :
                    /\ ItemsOf(g', S) = ItemsOf(g, S)
                    /\ g'.cont[S] = g.cont[S]
                    /\ h'[S] = h[S]
              /\ SetMembers(g', n) \cap UsedItems(g) = {}
              /\ {g'.val[i] : i \in SetMembers(g', n)} \subseteq
                    {g.val[i] : i \in SetMembers(g, res'.c)
                                        \cup SetMembers(g, res'.o)})
       /\ (res'.op = "destroy"
           => \A S \in (SetNames \cup AnonPool) \ {res'.c} :
                 ItemsOf(g', S) = ItemsOf(g, S))]_vars

\* U ^ V has returned a set of two new items while U and V hold one each
C31_Witness ==
    /\ res.op = "xor" /\ res.exc = "" /\ res.c = "U" /\ res.o = "V"
    /\ Cardinality(SetMembers(g, AnonSeq[res.arg])) = 2
    /\ SetMembers(g, "U") # {} /\ SetMembers(g, "V") # {}

(* ------------------------------ wrapper items after completed calls --- *)
\* the sets an operator has returned: anonymous sets that belong to no map
OperatorResults(s) ==
    {n \in Results(s) : \A m \in MapNames : n \notin KeysSetOf(s, m) \cup ValuesSetOf(s, m)}

MaxCompletedItems == 2

CompletedRoom(n) == Cardinality(UsedItems(g)) + n <= MaxCompletedItems

\* a program that works with lists, with sets, or with a map
Families == {ListNames, SetNames, MapNames}

InitCompleted ==
    /\ \E F \in Families :
          g = [InitStore EXCEPT
                 !.cont = [n \in Names |-> IF n \in F THEN @[n] ELSE NoCont]]
    /\ h = [n \in Names |-> [length |-> 0, deleted |-> FALSE]]
    /\ res = Result("init", "", "", 0, "")
    /\ appended = [l \in ListNames |-> <<>>]
    /\ assigned = [k \in Hashes |-> NoElem]
    /\ obs = NoObs

\* the operations that build and change containers, each run to completion
NextCompleted ==
    \/ \E l \in ListNames, e \in MergeElements :
          CompletedRoom(1) /\ Live(l) /\ ListAppend(l, e)
    \/ \E l \in ListNames, idx \in 0..1 : Live(l) /\ ListDelItem(l, idx)
    \/ \E l \in ListNames, o \in ListNames :
          Live(l) /\ Live(o) /\ ListExtendByMerging(l, o)
    \/ Live("u") /\ Create("anon_v")
    \/ \E q \in RowSeqs, auto_reset \in BOOLEAN, no_duplicates \in BOOLEAN :
          /\ CompletedRoom(Len(q)) /\ Live("u")
          /\ ListFromQuery("u", q, auto_reset, no_duplicates)
    \/ \E ids \in IdArrays, auto_reset \in BOOLEAN :
          /\ CompletedRoom(Cardinality(ids)) /\ Live("u")
          /\ ListFromIdArray("u", ids, auto_reset)
    \/ \E S \in SetNames, e \in MergeElements :
          CompletedRoom(1) /\ Live(S) /\ SetAdd(S, e)
    \/ \E hv \in Hashes : Live("U") /\ SetRemoveByHash("U", hv)
    \/ \E op \in SetOps, A \in SetNames, B \in SetNames :
          /\ Live(A) /\ Live(B) /\ A # B
          /\ OperatorResults(g) = {}
          /\ CompletedRoom(Cardinality(HeldItems(g, A) \cup HeldItems(g, B)))
          /\ SetOperator(op, A, B)
    \/ \E n \in AnonPool : n \in OperatorResults(g) /\ Destroy(n)
    \/ \E I \in SUBSET MergeElements, auto_reset \in BOOLEAN :
          /\ CompletedRoom(Cardinality(I)) /\ Live("U")
          /\ SetFromQuery("U", I, auto_reset)
    \/ \E auto_reset \in BOOLEAN :
          /\ CompletedRoom(Cardinality(ChainItems(g, "U"))) /\ Live("U") /\ Live("V")
          /\ SetFromAbstractSet("V", "U", auto_reset)
    \/ \E key \in MergeElements, value \in {"e1", "e4"} :
          CompletedRoom(2) /\ Live("m") /\ MapSetItem("m", key, value)
    \/ \E key \in MergeElements : Live("m") /\ MapDelItem("m", key)
    \/ \E ks \in KeyCollections, vs \in ValueCollections, auto_reset \in BOOLEAN :
          /\ CompletedRoom(2 * Len(ks)) /\ Live("m")
          /\ MapFromKeyValue("m", ks, vs, auto_reset)

SpecCompleted == InitCompleted /\ [][NextCompleted]_vars

\* the containers that hold the wrapper item i
Holders(s, i) == {c \in Names : s.cont[c].kind # "none" /\ i \in HeldItems(s, c)}

AnyKeyCollections ==
    {q \in UNION {[1..n -> ListElements] : n \in 0..MaxRows} :
        \A i, j \in 1..Len(q) : q[i] = q[j] => i = j}

\* the paths that build a set other than add
NextUnique ==
    \/ \E S \in SetNames, e \in {"e2", "e3"} : MixedRoom(1) /\ SetAdd(S, e)
    \/ \E op \in SetOps, A \in SetNames, B \in SetNames :
          /\ A # B /\ OperatorResults(g) = {} /\ NamesLeft(g, 1)
          /\ BulkRoom(Cardinality(SetMembers(g, A) \cup SetMembers(g, B)))
          /\ SetOperator(op, A, B)
    \/ \E n \in AnonPool : n \in OperatorResults(g) /\ Destroy(n)
    \/ \E auto_reset \in BOOLEAN :
          /\ BulkRoom(Cardinality(ChainItems(g, "U")))
          /\ SetFromAbstractSet("V", "U", auto_reset)
    \/ \E ks \in AnyKeyCollections, vs \in ValueCollections :
          /\ Len(ks) = Len(vs) /\ BulkRoom(2 * Len(ks)) /\ NamesLeft(g, 2)
          /\ MapFromKeyValue("m", ks, vs, TRUE)

SpecUnique == Init /\ [][NextUnique]_vars

\* C33: the result of each set operator and of from_abstractset, and the key
\* set and value set built by from_keyvalue_node_query, never hold two wrapper
\* items with the same hash tag, also when two keys of the rows have equal
\* hashes.
C33_UniqueOnEveryPath ==
    \A S \in Names : g.cont[S].kind = "set" =>
       \A i, j \in SetMembers(g, S) :
          (g.item[i].hash # NoHash /\ g.item[i].hash = g.item[j].hash) => i = j

(* ------------------------------ two handles of one list --------------- *)
\* a second client's handle of the list u, fetched by name
SecondHandle == "u_2"
Clients == {"u", SecondHandle}

InitClients ==
    /\ g = InitStore
    /\ h = [n \in Names \cup {SecondHandle} |-> [length |-> 0, deleted |-> FALSE]]
    /\ res = Result("init", "", "", 0, "")
    /\ appended = [l \in ListNames |-> <<>>]
    /\ assigned = [k \in Hashes |-> NoElem]
    /\ obs = NoObs

\* AbstractDLList.nodes.get(name=...) / refresh(): the handle takes the stored length
Fetch(k, l) ==
    /\ h[k].length # g.cont[l].length
    /\ h' = [h EXCEPT ![k].length = g.cont[l].length]
    /\ res' = Result("fetch", l, k, 0, "")
    /\ UNCHANGED <<g, appended, assigned, obs>>

\* the clients' calls on u, one at a time, each run to completion
NextClients ==
    \/ \E k \in Clients, e \in MergeElements :
          ListRoom /\ h[k].length < MaxListItems /\ ListAppendBy(k, "u", e)
    \/ \E k \in Clients, idx \in 0..1 : ListDelItemBy(k, "u", idx)
    \/ \E k \in Clients : Fetch(k, "u")

SpecClients == InitClients /\ [][NextClients]_vars

\* C34: when the operations on a list never overlap, after each completed
\* append or delete the stored length is the number of reachable items and
\* the list has a single head edge, whichever client handle made the call.
C34_SerialWritersKeepList ==
    (res.op \in {"append", "delitem"} /\ res.exc = "") =>
        /\ g.cont[res.c].length = Cardinality(ChainItems(g, res.c))
        /\ Cardinality(HeadsOf(g, res.c)) <= 1

(* ------------------------------ two appends that overlap -------------- *)
\* a caller inside append(): where it is, the item it created and the tail
\* its query returned (0: none)
InitCallers ==
    /\ g = InitStore
    /\ h = [n \in Names \cup {SecondHandle} |->
              [length |-> 0, deleted |-> FALSE, pc |-> "idle", item |-> 0, tail |-> 0]]
    /\ res = Result("init", "", "", 0, "")
    /\ appended = [l \in ListNames |-> <<>>]
    /\ assigned = [k \in Hashes |-> NoElem]
    /\ obs = NoObs

\* a tail that takes a new successor only when it has none
TailConnectIfFree(s, t, i) == IF NxtOf(s, t) = {} THEN ConnectNxt(s, t, i) ELSE s

\* this_list_tail_item.nxt.connect(new_list_item)
TailConnect(s, t, i) == ConnectNxt(s, t, i)

\* new_list_item = DLListItem().save(); value.connect(an_element); then the
\* branch on len(self)
AppendCreate(k, l, e) ==
    /\ h[k].pc = "idle" /\ e \in g.elem
    /\ g' = NewListItem(g, e)
    /\ h' = [h EXCEPT ![k].pc = IF h[k].length = 0 THEN "head" ELSE "find",
                      ![k].item = FreshItem(g), ![k].tail = 0]
    /\ UNCHANGED <<res, appended, assigned, obs>>

\* self.head.connect(new_list_item); self.length += 1
AppendConnectHead(k, l) ==
    /\ h[k].pc = "head"
    /\ g' = AppendAsHead(g, l, h[k].item)
    /\ h' = [h EXCEPT ![k].pc = "save", ![k].length = @ + 1]
    /\ UNCHANGED <<res, appended, assigned, obs>>

\* the tail query; [0][0][0] of an empty result ends the call
AppendFindTail(k, l) ==
    /\ h[k].pc = "find"
    /\ UNCHANGED <<g, appended, assigned, obs>>
    /\ IF TailRows(g, l) = {}
       THEN /\ h' = [h EXCEPT ![k].pc = "idle"]
            /\ res' = Result("append", l, k, 0, "IndexError")
       ELSE /\ \E t \in TailRows(g, l) : h' = [h EXCEPT ![k].pc = "nxt", ![k].tail = t]
            /\ UNCHANGED res

AppendLinkNxt(k, l) ==
    /\ h[k].pc = "nxt"
    /\ g' = TailConnect(g, h[k].tail, h[k].item)
    /\ h' = [h EXCEPT ![k].pc = "prv"]
    /\ UNCHANGED <<res, appended, assigned, obs>>

\* new_list_item.prv.connect(this_list_tail_item); self.length += 1
AppendLinkPrv(k, l) ==
    /\ h[k].pc = "prv"
    /\ g' = ConnectPrv(g, h[k].item, h[k].tail)
    /\ h' = [h EXCEPT ![k].pc = "save", ![k].length = @ + 1]
    /\ UNCHANGED <<res, appended, assigned, obs>>

\* self.save(); return self
AppendSave(k, l) ==
    /\ h[k].pc = "save"
    /\ g' = SaveLength(g, l, h[k].length)
    /\ h' = [h EXCEPT ![k].pc = "idle"]
    /\ appended' = [appended EXCEPT ![l] = Append(@, g.val[h[k].item])]
    /\ res' = Result("append", l, k, 0, "")
    /\ UNCHANGED <<assigned, obs>>

\* two callers appending to u, their steps interleaved in any order
NextCallers ==
    \/ \E k \in Clients, e \in MergeElements : ListRoom /\ AppendCreate(k, "u", e)
    \/ \E k \in Clients : AppendConnectHead(k, "u")
    \/ \E k \in Clients : AppendFindTail(k, "u")
    \/ \E k \in Clients : AppendLinkNxt(k, "u")
    \/ \E k \in Clients : AppendLinkPrv(k, "u")
    \/ \E k \in Clients : AppendSave(k, "u")
    \/ \E k \in Clients : h[k].pc = "idle" /\ Fetch(k, "u")

SpecCallers == InitCallers /\ [][NextCallers]_vars

\* an item with two successors, a list with two head edges, or a stored
\* length that is not the number of reachable items
Corrupted(s, l) ==
    \/ \E i \in UsedItems(s) : Cardinality(NxtOf(s, i)) > 1
    \/ Cardinality(HeadsOf(s, l)) > 1
    \/ s.cont[l].length # Cardinality(ChainItems(s, l))

BothCompleted ==
    \A k \in Clients : h[k].pc = "idle" /\ h[k].item # 0

\* C35: two appends to one list that overlap corrupt it: once both calls have
\* completed after working from the same tail, or after both connecting a
\* head, an item has two successors or the list has two head edges or the
\* stored length is not the number of reachable items.
C35_OverlappingAppendsCorrupt ==
    (BothCompleted /\ h["u"].tail = h[SecondHandle].tail) => Corrupted(g, "u")

\* both appends have completed and the tail they both found has two successors
C35_Witness ==
    /\ BothCompleted
    /\ h["u"].tail # 0 /\ h["u"].tail = h[SecondHandle].tail
    /\ Cardinality(NxtOf(g, h["u"].tail)) = 2
    /\ res.op = "append" /\ res.exc = ""

(* ------------------------------ del list[i] that stops before save() -- *)
\* del list[item_index] by a process that stops after item_object.delete()
\* and before self.save(): the store keeps the old length; the handle is lost
\* with the process and the next client fetches the stored length
ListDelItemStopped(l, idx) ==
    /\ UNCHANGED <<assigned, obs>>
    /\ IF IndexOutOfBounds(idx, h[l].length) \/ Hops(g, l, idx + 1) = {}
       THEN /\ res' = Result("delitem", l, "", idx, "IndexError")
            /\ UNCHANGED <<g, h, appended>>
       ELSE \E it \in Hops(g, l, idx + 1) :
            IF HeadCaseNotConnected(g, l, it)
            THEN /\ res' = Result("delitem", l, "", idx, "NotConnected")
                 /\ UNCHANGED <<g, h, appended>>
            ELSE \E p \in PickOr(PrvOf(g, it), it), n \in PickOr(NxtOf(g, it), it) :
                 /\ g' = Unlink(g, l, it, p, n)
                 /\ h' = [h EXCEPT ![l].length = g.cont[l].length]
                 /\ appended' = [appended EXCEPT ![l] = RemoveAt(@, idx + 1)]
                 /\ res' = Result("delitem", l, "stopped", idx, "")

NextStopped ==
    \/ \E e \in MergeElements :
          ListRoom /\ h["u"].length < MaxListItems /\ ListAppend("u", e)
    \/ \E idx \in 0..MaxListItems : ListDelItem("u", idx)
    \/ \E idx \in 0..MaxListItems : ListDelItemStopped("u", idx)

SpecStopped == Init /\ [][NextStopped]_vars

\* the list's items form one doubly linked chain from a single head
WellFormedList(s, l) ==
    /\ \A i, j \in ItemIds : <<i, j>> \in s.nxt <=> <<j, i>> \in s.prv
    /\ \A i \in ListItems(s) :
          Cardinality(NxtOf(s, i)) <= 1 /\ Cardinality(PrvOf(s, i)) <= 1
    /\ Cardinality(HeadsOf(s, l)) <= 1
    /\ \A i \in HeadsOf(s, l) : PrvOf(s, i) = {}
    /\ ListItems(s) = ChainItems(s, l)
    /\ \A i \in Hops(s, l, Cardinality(ChainItems(s, l))) : NxtOf(s, i) = {}

\* C36: when del list[i] stops after the item has been removed and before the
\* length is written, on a list whose stored length was its item count, the
\* stored length is one more than the number of reachable items and the
\* remaining items still form a well-formed doubly linked list.
C36_StopBeforeLengthWrite ==
    [][(/\ res'.op = "delitem" /\ res'.o = "stopped"
        /\ g.cont[res'.c].length = Cardinality(ChainItems(g, res'.c))
        /\ WellFormedList(g, res'.c))
       => /\ g'.cont[res'.c].length = Cardinality(ChainItems(g', res'.c)) + 1
          /\ WellFormedList(g', res'.c)]_vars

\* the middle item of three has been removed and the length is still 3
C36_Witness ==
    /\ res.op = "delitem" /\ res.o = "stopped" /\ res.arg = 1
    /\ g.cont["u"].length = 3
    /\ Cardinality(ChainItems(g, "u")) = 2
    /\ WellFormedList(g, "u")

(* ------------------------------ two from_query calls that overlap ----- *)
\* the rows a construction of the list l has still to stage
Pending(l) == IF h[l].pc = "stage" THEN Len(appended[l]) ELSE 0

\* pre-action check, emptiness test or clear(), SET a_list.length = 0
FromQueryBegin(l, q, auto_reset) ==
    /\ h[l].pc = "idle" /\ ~ PreCheckFails(l)
    /\ Range(q) \subseteq g.elem
    /\ UNCHANGED <<assigned, obs>>
    /\ IF ~ auto_reset /\ h[l].length > 0
       THEN /\ res' = Result("from_query", l, "", Len(q), "ContainerNotEmpty")
            /\ UNCHANGED <<g, h, appended>>
       ELSE /\ g' = SaveLength(IF auto_reset THEN ListClearStore(g, l) ELSE g, l, 0)
            /\ h' = [h EXCEPT ![l].pc = "stage",
                              ![l].length = IF auto_reset THEN 0 ELSE @]
            /\ appended' = [appended EXCEPT ![l] = q]
            /\ UNCHANGED res

\* one query of from_query: the store after it and the phase that follows
FromQueryPhase(l, from, s1, to) ==
    /\ h[l].pc = from
    /\ g' = s1
    /\ h' = [h EXCEPT ![l].pc = to]
    /\ UNCHANGED <<res, appended, assigned, obs>>

FromQueryStage(l) == FromQueryPhase(l, "stage", StageRows(g, l, appended[l]), "forward")
FromQueryForward(l) == FromQueryPhase(l, "forward", LinkForward(g, l), "backward")
FromQueryBackward(l) == FromQueryPhase(l, "backward", LinkBackward(g, l), "attach")
FromQueryAttach(l) == FromQueryPhase(l, "attach", ConnectStagedHead(g, l), "unstage")
FromQueryUnstage(l) == FromQueryPhase(l, "unstage", DeleteTempLinks(g, l), "refresh")

\* self.refresh(); return self
FromQueryRefresh(l) ==
    /\ h[l].pc = "refresh"
    /\ h' = [h EXCEPT ![l].pc = "idle", ![l].length = g.cont[l].length]
    /\ res' = Result("from_query", l, "", Len(appended[l]), "")
    /\ UNCHANGED <<g, appended, assigned, obs>>

\* query results without a repeated element
DistinctRows == {q \in RowSeqs : \A i, j \in 1..Len(q) : q[i] = q[j] => i = j}

\* from_query on u and on anon_v, their queries interleaved in any order
NextPhases ==
    \/ \E l \in ListNames, q \in DistinctRows, auto_reset \in BOOLEAN :
          /\ BulkRoom(Len(q) + Pending(CHOOSE o \in ListNames : o # l))
          /\ FromQueryBegin(l, q, auto_reset)
    \/ \E l \in ListNames : FromQueryStage(l)
    \/ \E l \in ListNames : FromQueryForward(l)
    \/ \E l \in ListNames : FromQueryBackward(l)
    \/ \E l \in ListNames : FromQueryAttach(l)
    \/ \E l \in ListNames : FromQueryUnstage(l)
    \/ \E l \in ListNames : FromQueryRefresh(l)

SpecPhases == InitCallers /\ [][NextPhases]_vars

\* the list l holds exactly rows, in order, on a well-formed chain, and has
\* no staging edge left
HoldsRows(s, l, rows) ==
    LET n == Len(rows)
    IN /\ s.cont[l].length = n
       /\ Cardinality(ChainItems(s, l)) = n
       /\ Cardinality(HeadsOf(s, l)) = (IF n = 0 THEN 0 ELSE 1)
       /\ ChainValues(s, l, n) = [k \in 1..n |-> {rows[k]}]
       /\ \A i \in ChainItems(s, l) :
             /\ s.item[i].label = "DLListItem"
             /\ Cardinality(NxtOf(s, i)) <= 1
             /\ \A j \in ItemIds : <<i, j>> \in s.nxt <=> <<j, i>> \in s.prv
             /\ \A j \in ItemIds : <<j, i>> \in s.nxt <=> <<i, j>> \in s.prv
       /\ TempLinks(s, l) = {}

\* C37: two from_query constructions on two lists, interleaved at any phase
\* boundary, each complete with a valid list of the rows of its own query; no
\* phase of one list changes the staging edges, the head or the chain of the
\* other.
C37_InterleavedConstructions ==
    [][\A l \in ListNames, o \in ListNames :
          (l # o /\ h'[l].pc # h[l].pc) =>
             /\ TempLinks(g', o) = TempLinks(g, o)
             /\ HeadsOf(g', o) = HeadsOf(g, o)
             /\ ChainItems(g', o) = ChainItems(g, o)
             /\ (h'[l].pc = "idle" /\ res'.exc = "")
                   => (h'[l].length = Len(appended[l]) /\ HoldsRows(g', l, appended[l]))]_vars

\* u.from_query has completed with its two rows while the two items of anon_v
\* are staged and linked but not yet attached
C37_Witness ==
    /\ res.op = "from_query" /\ res.c = "u" /\ res.exc = "" /\ res.arg = 2
    /\ h["u"].pc = "idle" /\ h["anon_v"].pc = "attach"
    /\ Cardinality(TempLinks(g, "anon_v")) = 2
    /\ HoldsRows(g, "u", appended["u"])

(* ------------------------------ the sweep and the store's refusal ----- *)
\* C38: garbage_collect runs its four passes to completion without a store
\* error from every reachable store state, also when an anonymous,
\* unreferenced container that still has outgoing edges exists.
C38_SweepCompletes ==
    res.op = "gc" => res.exc = ""

====
